---- MODULE Spec2Model ----
(***************************************************************************)
(* QuizApp (zaidkx7/QuizApp): the student blueprint (take_quiz,             *)
(* submit_quiz, view_result), the admin operations that change the result  *)
(* store and the settings, and the scoring routine calculate_score.        *)
(*                                                                         *)
(* Every request handler opens its own database session (with_db).  The    *)
(* sqlite driver starts no transaction for a SELECT, so each query of a    *)
(* handler sees whatever is committed at that moment: a handler is a       *)
(* sequence of steps, one per query (or group of queries nothing relevant  *)
(* separates), and the steps of concurrent requests interleave.            *)
(***************************************************************************)
EXTENDS Integers, Sequences, FiniteSets, TLC

\* ------------------------------------------------------------------ bounds
\* The clock runs from 0 to MaxTime (seconds).
MaxTime == 6
\* At most MaxResults rows are ever in the results table at once.
MaxResults == 2
\* The admin's settings form submits max_attempts values 0..MaxSetting.
MaxSetting == 1
\* attempt_id values a client posts are 0..MaxToken (besides absent and junk).
MaxToken == 1
\* A quiz holds at most MaxQuestions questions.
MaxQuestions == 2
\* A quiz whose answers are only tallied holds at most MaxTally questions.
MaxTally == 3
\* The rows of the quizzes table, the quiz of the start among them.
MaxQuizzes == 3
\* A text normalize is called with has at most MaxLen characters.
MaxLen == 3
\* An answer is_fuzzy_correct is called with has at most MaxAnswerLen
\* characters (besides the two answers of the Paris example).
MaxAnswerLen == 2

\* ------------------------------------------------------- program constants
\* timedelta(seconds=5): the duplicate-submission window.
DuplicateWindow == 5
\* Settings(max_attempts=3, ...): the default of the lazily created row.
DefaultMaxAttempts == 3
\* max_attempts > 999 is refused by admin_settings_update.
MaxAllowedAttempts == 999
\* is_fuzzy_correct(..., threshold: int = 85)
Threshold == 85
\* The binary digits of a float's significand.
Precision == 53

\* The browsers that talk to the server; each holds one session cookie and
\* has at most one request in flight.  Two are a student's (two windows, or
\* one form posted twice), one is the administrator's.
Students == {"c1", "c2"}
Clients == Students \cup {"adm"}
\* The users table at start: the admin row admin_login created, and the
\* student the admin added since.  The quizzes uploaded since.
\* user_id is the student number; the admin row has none, and no password.
AdminRow == [id |-> 1, role |-> "admin", user_id |-> "None", password |-> "None"]
StudentRow == [id |-> 2, role |-> "user", user_id |-> "s1", password |-> "pw"]
InitialUsers == {AdminRow, StudentRow}
InitialQuizzes == {1}
StudentIds == {u.id : u \in {v \in InitialUsers : v.role = "user"}}

\* Python's None where an integer (a primary key, an attempt number) is expected.
None == 0

VARIABLES
    now,        \* datetime.utcnow(), in seconds
    settings,   \* the settings table: a set of rows
    quizzes,    \* the quizzes table (each row's file exists): a set of ids
    users,      \* the users table: a set of rows
    results,    \* the results table: a set of rows
    session,    \* per client, the Flask session cookie
    pc,         \* per client, where its request in flight stands
    req,        \* per client, the local variables of the request in flight
    resp,       \* per client, the response to its last finished quiz request,
                \* or the redirect to the admin login that refused it
    quiz_data,  \* the quiz file's content a submission is scored against
    form_data,  \* dict(request.form) of that submission
    report,     \* what calculate_score returned for them
    outbox,     \* the e-mails handed to the SMTP server, in order
    uploads,    \* the quizzes rows upload_quiz created
    files,      \* app/data/questions: what it wrote, by file name
    args,       \* the arguments of a call of normalize or is_fuzzy_correct
    returned    \* what the calls made with them returned, in order

\* The variables the attempt accounting leaves alone: those of one scoring
\* call, the mail, the uploads, and a call of a text helper.
scoring == <<quiz_data, form_data, report, outbox, uploads, files, args, returned>>

vars == <<now, settings, quizzes, users, results, session, pc, req, resp, scoring>>

\* ------------------------------------------------------------------ helpers
Max(S) == CHOOSE x \in S : \A y \in S : y <= x
Min(S) == CHOOSE x \in S : \A y \in S : x <= y

\* db.query(Result).filter(Result.user_id == u, Result.quiz_id == q)
PairResults(u, q) == {r \in results : r.user_id = u /\ r.quiz_id = q}

\* The rows .order_by(Result.submitted_at.desc()).first() may return: a row of
\* greatest submitted_at (SQL leaves the order among equal keys open).
LatestOf(S) == {r \in S : \A o \in S : o.submitted_at <= r.submitted_at}

\* The primary key sqlite gives a new row of an INTEGER PRIMARY KEY table
\* without AUTOINCREMENT: one more than the greatest key in the table.
NewResultId == IF results = {} THEN 1 ELSE Max({r.id : r \in results}) + 1

\* session["message"]: none, or one of the texts the handlers set.
NoMessage == ""
MsgDuplicate == "Your quiz has already been submitted. Here are your results."
MsgStale == "This attempt has already been submitted."
MsgLimit == "You have reached the maximum number of attempts for this quiz!"
MsgAdmin == "admin"

NoReq == [user |-> None, quiz_id |-> None,
          attempt_id |-> [kind |-> "absent", n |-> 0],
          existing_attempts_count |-> 0, attempt_count |-> 0,
          max_attempts |-> 0, result_id |-> None]

\* A response: what it is (a page, a redirect, an error), the result it shows
\* or redirects to, the attempt number on the page.
Resp(k, rid) == [kind |-> k, result_id |-> rid, attempt_number |-> None]

NoResp == Resp("none", None)

\* request.form.get("attempt_id"): absent (or empty), not an integer, or an integer.
AttemptIds ==
    {[kind |-> "absent", n |-> 0], [kind |-> "bad", n |-> 0]}
        \cup {[kind |-> "int", n |-> k] : k \in 0..MaxToken}

\* get_current_user: the row of session["user_id"], None when the id is unset
\* or the row is gone.
get_current_user(c) ==
    IF session[c].user_id # None /\ session[c].user_id \in {u.id : u \in users}
    THEN session[c].user_id ELSE None

\* The elements of a finite set, in some order.
RECURSIVE SetToSeq(_)
SetToSeq(S) ==
    IF S = {} THEN <<>>
    ELSE LET x == CHOOSE y \in S : TRUE IN <<x>> \o SetToSeq(S \ {x})

\* get_or_create_settings: the table after the call, and the row it returns.
SettingsAfterGet ==
    IF settings = {}
    THEN {[id |-> 1, max_attempts |-> DefaultMaxAttempts, smtp_enabled |-> TRUE]}
    ELSE settings

CurrentSettings == CHOOSE s \in SettingsAfterGet :
                       \A o \in SettingsAfterGet : s.id <= o.id

get_max_attempts == CurrentSettings.max_attempts

is_smtp_enabled == CurrentSettings.smtp_enabled

\* The requests in flight that will insert a row unless a guard stops them.
Submitting == {c \in Clients : pc[c] \in {"sq_stale", "sq_limit", "sq_load", "sq_insert"}}

\* ------------------------------------------------------------------ guards
\* A window that leaves out a Result exactly DuplicateWindow seconds old.
IsRecentExclusive(submitted_at, t) == submitted_at > t - DuplicateWindow

\* Result.submitted_at >= five_seconds_ago, five_seconds_ago = utcnow() - 5 s
IsRecent(submitted_at, t) == submitted_at >= t - DuplicateWindow

\* A stale check that lets an attempt_id equal to the count through.
IsStaleBelow(current_attempt_num, existing_attempts_count) ==
    current_attempt_num < existing_attempts_count

\* current_attempt_num <= existing_attempts_count
IsStale(current_attempt_num, existing_attempts_count) ==
    current_attempt_num <= existing_attempts_count

\* A limit check that lets a count equal to max_attempts through.
LimitReachedAbove(attempt_count, max_attempts) == attempt_count > max_attempts

\* attempt_count >= max_attempts
LimitReached(attempt_count, max_attempts) == attempt_count >= max_attempts

\* ----------------------------------------------------------------- scoring
\* Strings are sequences of one-character strings.  The characters the
\* regular expressions of normalize name:
Brackets == {"<", ">"}
Punctuation == {"-", "_", ".", ",", ";", ":", "!", "?", "(", ")", "{", "}",
                "[", "]", "\"", "/", "\\"}
Whitespace == {" ", "\t"}

\* str.lower on the letters the inputs are written with.
lower_char(ch) ==
    CASE ch = "T" -> "t"
      [] ch = "P" -> "p"
      [] ch = "R" -> "r"
      [] ch = "U" -> "u"
      [] ch = "E" -> "e"
      [] OTHER -> ch

lower(text) == [i \in 1..Len(text) |-> lower_char(text[i])]

RECURSIVE lstrip(_)
lstrip(text) ==
    IF text # <<>> /\ Head(text) \in Whitespace THEN lstrip(Tail(text)) ELSE text

RECURSIVE rstrip(_)
rstrip(text) ==
    IF text # <<>> /\ text[Len(text)] \in Whitespace
       THEN rstrip(SubSeq(text, 1, Len(text) - 1))
       ELSE text

\* str.strip
strip(text) == rstrip(lstrip(text))

\* re.sub(r'\s+', ' ', text)
RECURSIVE collapse(_)
collapse(text) ==
    IF text = <<>> THEN <<>>
    ELSE IF Head(text) \in Whitespace
         THEN <<" ">> \o collapse(lstrip(Tail(text)))
         ELSE <<Head(text)>> \o collapse(Tail(text))

\* A normalize that deletes the angle brackets last.
normalize_brackets_last(text) ==
    IF text = <<>> THEN <<>>
    ELSE LET lowered == lower(text)
             spaced == [i \in 1..Len(lowered) |->
                          IF lowered[i] \in Punctuation THEN " " ELSE lowered[i]]
         IN  SelectSeq(strip(collapse(spaced)), LAMBDA ch : ch \notin Brackets)

\* normalize (utils.py 44-59)
normalize(text) ==
    IF text = <<>> THEN <<>>
    ELSE LET lowered == lower(text)
             unbracketed == SelectSeq(lowered, LAMBDA ch : ch \notin Brackets)
             spaced == [i \in 1..Len(unbracketed) |->
                          IF unbracketed[i] \in Punctuation THEN " "
                                                            ELSE unbracketed[i]]
         IN  strip(collapse(spaced))

\* The length of a longest common subsequence.
RECURSIVE lcs(_, _)
lcs(s1, s2) ==
    IF s1 = <<>> \/ s2 = <<>> THEN 0
    ELSE IF Head(s1) = Head(s2) THEN 1 + lcs(Tail(s1), Tail(s2))
         ELSE LET a == lcs(Tail(s1), s2)
                  b == lcs(s1, Tail(s2))
              IN  IF a >= b THEN a ELSE b

\* A ratio for which two empty strings have nothing in common.
ratio_empty_zero(s1, s2) ==
    IF Len(s1) + Len(s2) = 0
       THEN [num |-> 0, den |-> 1]
       ELSE [num |-> 200 * lcs(s1, s2), den |-> Len(s1) + Len(s2)]

\* rapidfuzz's fuzz.ratio: the normalized indel similarity times 100, here as
\* the exact quotient num / den; two empty strings are 100 alike.
ratio(s1, s2) ==
    IF Len(s1) + Len(s2) = 0
       THEN [num |-> 100, den |-> 1]
       ELSE [num |-> 200 * lcs(s1, s2), den |-> Len(s1) + Len(s2)]

is_fuzzy_correct(user_answer, correct_answer, threshold) ==
    LET score == ratio(normalize(user_answer), normalize(correct_answer))
    IN  score.num >= threshold * score.den

\* Python's None, True and False where a true/false answer is expected.
PyNone == "None"
PyTrue == "True"
PyFalse == "False"

\* Field names that count the questions from 1.
FieldNameOneBased(prefix, idx) == <<prefix, idx + 1>>

\* f"{prefix}_{idx}", the name of a form field.
FieldName(prefix, idx) == <<prefix, idx>>

\* dict.get(key, default)
get(d, key, default) == IF key \in DOMAIN d THEN d[key] ELSE default

\* A true/false answer left blank is scored as the answer False.
tf_user_answer_blank_false(user_answers, idx) ==
    IF FieldName("tf", idx) \in DOMAIN user_answers
          /\ lower(user_answers[FieldName("tf", idx)]) = <<"t", "r", "u", "e">>
       THEN PyTrue
       ELSE PyFalse

\* user_answers.get(f"tf_{idx}"), made a bool unless it is None
tf_user_answer(user_answers, idx) ==
    IF FieldName("tf", idx) \in DOMAIN user_answers
       THEN IF lower(user_answers[FieldName("tf", idx)]) = <<"t", "r", "u", "e">>
               THEN PyTrue
               ELSE PyFalse
       ELSE PyNone

\* The questions of one kind: none when the quiz has no such key.
Questions(exam_data, kind) ==
    IF kind \in DOMAIN exam_data THEN exam_data[kind] ELSE <<>>

\* The keys calculate_score reads of a question of each kind.
RequiredKeys(kind) ==
    IF kind = "mcqs" THEN {"question", "options", "answer"}
                     ELSE {"question", "answer"}

Kinds == {"fill_in_the_blanks", "true_false", "mcqs"}

\* Reading a key a question lacks raises KeyError.
RaisesKeyError(exam_data) ==
    \E kind \in Kinds : \E i \in 1..Len(Questions(exam_data, kind)) :
        ~(RequiredKeys(kind) \subseteq DOMAIN Questions(exam_data, kind)[i])

fill_in_the_blanks_results(exam_data, user_answers) ==
    LET questions == Questions(exam_data, "fill_in_the_blanks")
    IN  [i \in 1..Len(questions) |->
            LET user_answer == strip(get(user_answers, FieldName("fib", i - 1), <<>>))
                correct_answer == strip(questions[i].answer)
            IN  [question |-> questions[i].question,
                 user_answer |-> user_answer,
                 correct_answer |-> correct_answer,
                 is_correct |-> is_fuzzy_correct(user_answer, correct_answer, Threshold)]]

true_false_results(exam_data, user_answers) ==
    LET questions == Questions(exam_data, "true_false")
    IN  [i \in 1..Len(questions) |->
            LET user_answer == tf_user_answer(user_answers, i - 1)
                correct_answer == questions[i].answer
            IN  [question |-> questions[i].question,
                 user_answer |-> user_answer,
                 correct_answer |-> correct_answer,
                 is_correct |-> user_answer = correct_answer]]

\* Multiple choice answers matched the way fill-in-the-blank answers are.
mcqs_results_fuzzy(exam_data, user_answers) ==
    LET questions == Questions(exam_data, "mcqs")
    IN  [i \in 1..Len(questions) |->
            LET user_answer == get(user_answers, FieldName("mcq", i - 1), <<>>)
                correct_answer == questions[i].answer
            IN  [question |-> questions[i].question,
                 options |-> questions[i].options,
                 user_answer |-> user_answer,
                 correct_answer |-> correct_answer,
                 is_correct |-> is_fuzzy_correct(user_answer, correct_answer, Threshold)]]

mcqs_results(exam_data, user_answers) ==
    LET questions == Questions(exam_data, "mcqs")
    IN  [i \in 1..Len(questions) |->
            LET user_answer == get(user_answers, FieldName("mcq", i - 1), <<>>)
                correct_answer == questions[i].answer
            IN  [question |-> questions[i].question,
                 options |-> questions[i].options,
                 user_answer |-> user_answer,
                 correct_answer |-> correct_answer,
                 is_correct |-> user_answer = correct_answer]]

\* A tally that counts every correct entry twice.
CorrectInTwice(section) ==
    2 * Cardinality({i \in 1..Len(section) : section[i].is_correct})

\* The number of entries of a result list marked correct.
CorrectIn(section) == Cardinality({i \in 1..Len(section) : section[i].is_correct})

\* ------------------------------------------------------------------ floats
\* A Python float (IEEE 754 binary64) that is not negative: the binary digits
\* of an odd integer, most significant first, times 2^exp.  Zero has no digits.
Zero == [bits |-> <<>>, exp |-> 0]

\* The n lowest binary digits of a natural number.
BitsW(k, n) == [i \in 1..n |-> (k \div 2^(n - i)) % 2]

\* The binary digits of a natural number below 2^30.
BitsOf(k) == BitsW(k, 30)

\* The natural number a short run of binary digits writes.
RECURSIVE IntOf(_)
IntOf(bits) ==
    IF Len(bits) = 0 THEN 0
    ELSE IF Len(bits) = 1 THEN bits[1]
    ELSE LET half == Len(bits) \div 2
         IN  IntOf(SubSeq(bits, 1, half)) * 2^(Len(bits) - half)
               + IntOf(SubSeq(bits, half + 1, Len(bits)))

\* The positions of the ones.
Ones(bits) == {i \in 1..Len(bits) : bits[i] = 1}

DropLeadingZeros(bits) ==
    IF Ones(bits) = {} THEN <<>> ELSE SubSeq(bits, Min(Ones(bits)), Len(bits))

\* The one representation of the value bits * 2^exp.
Canonical(bits, exp) ==
    IF Ones(bits) = {} THEN Zero
    ELSE [bits |-> SubSeq(bits, Min(Ones(bits)), Max(Ones(bits))),
          exp |-> exp + Len(bits) - Max(Ones(bits))]

\* bits + 1, a digit longer.
Increment(bits) ==
    LET padded == <<0>> \o bits
        zeros == {i \in 1..Len(padded) : padded[i] = 0}
    IN  [i \in 1..Len(padded) |->
            IF i < Max(zeros) THEN padded[i] ELSE IF i = Max(zeros) THEN 1 ELSE 0]

\* The float nearest to bits * 2^exp (plus, when sticky, a positive amount
\* below 2^exp), ties to the even significand.
RoundToNearestEven(bits, exp, sticky) ==
    LET b == DropLeadingZeros(bits)
    IN  IF Len(b) <= Precision THEN Canonical(b, exp)
        ELSE LET kept == SubSeq(b, 1, Precision)
                 more == sticky \/ \E i \in Precision + 2..Len(b) : b[i] = 1
                 up == b[Precision + 1] = 1 /\ (more \/ kept[Precision] = 1)
             IN  Canonical(IF up THEN Increment(kept) ELSE kept,
                           exp + Len(b) - Precision)

\* 2^i modulo a small b, by repeated squaring.
RECURSIVE Pow2Mod(_, _)
Pow2Mod(i, b) ==
    IF i = 0 THEN 1 % b
    ELSE LET h == Pow2Mod(i \div 2, b)
         IN  (h * h * (IF i % 2 = 1 THEN 2 ELSE 1)) % b

\* int / int for small naturals: the float nearest to the quotient.  Long
\* division gives the digits after the binary point, more than the
\* significand holds; the remainder left is the sticky part.
true_divide(a, b) ==
    LET n == Precision + 31
        frac == [i \in 1..n |-> (2 * (((a % b) * Pow2Mod(i - 1, b)) % b)) \div b]
        left == ((a % b) * Pow2Mod(n, b)) % b
    IN  RoundToNearestEven(BitsOf(a \div b) \o frac, 0 - n, left # 0)

\* float * int for a small natural: the float nearest to the product, the
\* significand multiplied in three limbs of 18 digits.
float_times(x, k) ==
    LET padded == [i \in 1..54 |-> IF i <= 54 - Len(x.bits) THEN 0
                                   ELSE x.bits[i - (54 - Len(x.bits))]]
        low == IntOf(SubSeq(padded, 37, 54)) * k
        mid == IntOf(SubSeq(padded, 19, 36)) * k + low \div 2^18
        high == IntOf(SubSeq(padded, 1, 18)) * k + mid \div 2^18
    IN  RoundToNearestEven(BitsOf(high) \o BitsW(mid % 2^18, 18) \o BitsW(low % 2^18, 18),
                           x.exp, FALSE)

\* float(k)
FromInt(k) == Canonical(BitsOf(k), 0)

\* x <= y
FloatLeq(x, y) ==
    LET top(z) == Len(z.bits) + z.exp
        digit(z, i) == IF i <= Len(z.bits) THEN z.bits[i] ELSE 0
        n == IF Len(x.bits) >= Len(y.bits) THEN Len(x.bits) ELSE Len(y.bits)
    IN  IF x = Zero THEN TRUE
        ELSE IF y = Zero THEN FALSE
        ELSE IF top(x) # top(y) THEN top(x) < top(y)
        ELSE \A i \in 1..n :
                (\A j \in 1..i - 1 : digit(x, j) = digit(y, j)) =>
                    digit(x, i) <= digit(y, i)

\* A percentage that takes a quiz of no questions for a perfect score.
percentage_of_empty_full(correct_answers, total_questions) ==
    IF total_questions > 0
       THEN float_times(true_divide(correct_answers, total_questions), 100)
       ELSE FromInt(100)

\* (correct_answers / total_questions) * 100, or 0 for no questions
percentage_of(correct_answers, total_questions) ==
    IF total_questions > 0
       THEN float_times(true_divide(correct_answers, total_questions), 100)
       ELSE Zero

\* (percentage, results), or the KeyError the call ends in.
calculate_score(exam_data, user_answers) ==
    IF RaisesKeyError(exam_data)
       THEN [status |-> "KeyError"]
       ELSE LET fib == fill_in_the_blanks_results(exam_data, user_answers)
                tf == true_false_results(exam_data, user_answers)
                mcq == mcqs_results(exam_data, user_answers)
                total_questions == Len(fib) + Len(tf) + Len(mcq)
                correct_answers == CorrectIn(fib) + CorrectIn(tf) + CorrectIn(mcq)
            IN  [status |-> "ok",
                 percentage |-> percentage_of(correct_answers, total_questions),
                 results |-> [fill_in_the_blanks |-> fib,
                              true_false |-> tf,
                              mcqs |-> mcq]]

\* No call of calculate_score has returned.
NoReport == [status |-> "none"]

\* The values a form field is posted with.
FormValues == {<<"t", "r", "u", "e">>, <<"T", "r", "u", "e">>,
               <<"f", "a", "l", "s", "e">>, <<>>,
               <<" ", "t", "R", "u", "e", "-">>}

\* The questions a quiz file holds, the last of each kind lacking its answer.
FibQuestions == {[question |-> "q", answer |-> <<"t", "r", "u", "e">>],
                 [question |-> "q", answer |-> <<"f", "a", "l", "s", "e">>],
                 [question |-> "q"]}
TfQuestions == {[question |-> "q", answer |-> PyTrue],
                [question |-> "q", answer |-> PyFalse],
                [question |-> "q"]}
McqOptions == <<<<"t", "r", "u", "e">>, <<"T", "r", "u", "e">>>>
McqQuestions == {[question |-> "q", options |-> McqOptions, answer |-> McqOptions[1]],
                 [question |-> "q", options |-> McqOptions, answer |-> McqOptions[2]],
                 [question |-> "q", options |-> McqOptions]}

\* The fields of the form take_quiz renders for a quiz.
FormFields(exam_data) ==
    {FieldName("fib", i - 1) : i \in 1..Len(Questions(exam_data, "fill_in_the_blanks"))}
    \cup {FieldName("tf", i - 1) : i \in 1..Len(Questions(exam_data, "true_false"))}
    \cup {FieldName("mcq", i - 1) : i \in 1..Len(Questions(exam_data, "mcqs"))}

\* dict(request.form): any of the fields of the form, each with a value.
Submissions(exam_data) ==
    UNION {[fields -> FormValues] : fields \in SUBSET FormFields(exam_data)}

\* ------------------------------------------------------------------ initial
\* The session after a login as the user row u (user_register, admin_login).
LoggedIn(u) == [role |-> u.role, user_id |-> u.id, message |-> NoMessage]

\* The database after the admin added a student and uploaded a quiz; the
\* student is logged in in both windows, the administrator in the third.
InitWith(settings_rows) ==
    /\ now = 0
    /\ settings = settings_rows
    /\ quizzes = InitialQuizzes
    /\ users = InitialUsers
    /\ results = {}
    /\ session = [c \in Clients |-> IF c \in Students THEN LoggedIn(StudentRow)
                                                        ELSE LoggedIn(AdminRow)]
    /\ pc = [c \in Clients |-> "idle"]
    /\ req = [c \in Clients |-> NoReq]
    /\ resp = [c \in Clients |-> NoResp]

\* Nothing was uploaded since, and no mail sent.
NoUploads ==
    /\ outbox = <<>>
    /\ uploads = {}
    /\ files = <<>>

\* No text helper is called on its own.
NoCall ==
    /\ args = <<>>
    /\ returned = <<>>

\* The quiz of the start is a file with a title and no question yet; no
\* submission is being scored.
NoScoring ==
    /\ quiz_data = [title |-> "t"]
    /\ form_data = <<>>
    /\ report = NoReport
    /\ NoUploads
    /\ NoCall

\* create_all leaves the settings table empty.
Init == InitWith({}) /\ NoScoring

\* The instants at which the clock is read: 0, a whole duplicate window
\* later, and MaxTime, past the window.
Instants == {0, DuplicateWindow, MaxTime}

\* Time passes, to the next instant.
Tick ==
    /\ \E t \in Instants : t > now
    /\ now' = Min({t \in Instants : t > now})
    /\ UNCHANGED <<settings, quizzes, users, scoring, results, session, pc, req, resp>>

\* ------------------------------------------------------------ submit_quiz
\* Every way a request ends: the response is recorded and the locals are dropped.
Finish(c, r) ==
    /\ pc' = [pc EXCEPT ![c] = "idle"]
    /\ req' = [req EXCEPT ![c] = NoReq]
    /\ resp' = [resp EXCEPT ![c] = r]

\* POST /user/submit/<q> arrives with attempt_id a: the login checks and the
\* duplicate-window query (user.py 156-177).  .first() without an ORDER BY
\* returns any matching row.  The only bound: a submission is taken up while
\* the table has room for its row.
submit_quiz(c, q, a) ==
    /\ pc[c] = "idle"
    /\ Cardinality(results) + Cardinality(Submitting) < MaxResults
    /\ IF session[c].role # "user" \/ get_current_user(c) = None
       THEN /\ Finish(c, Resp("register", None))
            /\ UNCHANGED session
       ELSE LET user == get_current_user(c)
                recent == {r \in PairResults(user, q) : IsRecent(r.submitted_at, now)}
            IN  IF recent # {}
                THEN \E recent_submission \in recent :
                        /\ session' = [session EXCEPT ![c].message = MsgDuplicate]
                        /\ Finish(c, Resp("view", recent_submission.id))
                ELSE /\ pc' = [pc EXCEPT ![c] =
                                  IF a.kind = "int" THEN "sq_stale" ELSE "sq_limit"]
                     /\ req' = [req EXCEPT ![c] =
                                   [NoReq EXCEPT !.user = user, !.quiz_id = q,
                                                 !.attempt_id = a]]
                     /\ resp' = [resp EXCEPT ![c] = NoResp]
                     /\ UNCHANGED session
    /\ UNCHANGED <<now, settings, quizzes, users, scoring, results>>

\* The attempt-id check (user.py 181-194): int(submitted_attempt_id) against
\* the count of the pair's rows.
submit_quiz_stale(c) ==
    /\ pc[c] = "sq_stale"
    /\ LET existing_attempts_count ==
               Cardinality(PairResults(req[c].user, req[c].quiz_id))
       IN  /\ req' = [req EXCEPT ![c].existing_attempts_count = existing_attempts_count]
           /\ IF IsStale(req[c].attempt_id.n, existing_attempts_count)
              THEN /\ session' = [session EXCEPT ![c].message = MsgStale]
                   /\ pc' = [pc EXCEPT ![c] = "sq_stale_latest"]
              ELSE /\ pc' = [pc EXCEPT ![c] = "sq_limit"]
                   /\ UNCHANGED session
    /\ UNCHANGED <<now, settings, quizzes, users, scoring, results, resp>>

\* The redirect of a guard that refused (user.py 198-203, 216-220, 130-134):
\* the latest-result query, then latest_result.id, which raises AttributeError
\* when the query returned None.  at: the step this is.  on_error: what the
\* exception ends in: nothing in submit_quiz catches it (the server's 500
\* page), take_quiz catches it and answers 500 with the exception's text.
RedirectToLatest(c, at, on_error) ==
    /\ pc[c] = at
    /\ LET latest == LatestOf(PairResults(req[c].user, req[c].quiz_id))
       IN  IF latest = {}
           THEN Finish(c, Resp(on_error, None))
           ELSE \E latest_result \in latest : Finish(c, Resp("view", latest_result.id))
    /\ UNCHANGED <<now, settings, quizzes, users, scoring, results, session>>

submit_quiz_stale_latest(c) == RedirectToLatest(c, "sq_stale_latest", "unhandled_error")

\* The attempts check (user.py 208-215): the count of the pair's rows and
\* get_max_attempts, which creates the settings row when there is none.
submit_quiz_limit(c) ==
    /\ pc[c] = "sq_limit"
    /\ LET attempt_count == Cardinality(PairResults(req[c].user, req[c].quiz_id))
           max_attempts == get_max_attempts
       IN  /\ settings' = SettingsAfterGet
           /\ req' = [req EXCEPT ![c].attempt_count = attempt_count,
                                 ![c].max_attempts = max_attempts]
           /\ IF LimitReached(attempt_count, max_attempts)
              THEN /\ session' = [session EXCEPT ![c].message = MsgLimit]
                   /\ pc' = [pc EXCEPT ![c] = "sq_limit_latest"]
              ELSE /\ pc' = [pc EXCEPT ![c] = "sq_load"]
                   /\ UNCHANGED session
    /\ UNCHANGED <<now, quizzes, users, scoring, results, resp>>

submit_quiz_limit_latest(c) == RedirectToLatest(c, "sq_limit_latest", "unhandled_error")

\* The row of submit_quiz (user.py 292-301).  The insert is reached with
\* SMTP disabled only, where email_sent is still False.
NewResult(c) == [id |-> NewResultId, user_id |-> req[c].user,
                 quiz_id |-> req[c].quiz_id, submitted_at |-> now,
                 email_sent |-> FALSE]

\* A submit_quiz that stores the row before it scores and notifies.
submit_quiz_load_insert_first(c) ==
    /\ pc[c] = "sq_load"
    /\ results' = results \cup {NewResult(c)}
    /\ IF calculate_score(quiz_data, form_data).status = "KeyError"
       THEN Finish(c, Resp("KeyError", None))
       ELSE Finish(c, Resp("view", NewResult(c).id))
    /\ UNCHANGED <<now, settings, quizzes, users, scoring, session>>

\* load_quiz_by_id, calculate_score, the admin notification (user.py 222-289).
\* A file that holds {} counts as no quiz (not quiz_data).
\* Nothing catches the KeyError of calculate_score.  With SMTP enabled the
\* handler reads Config.ADMIN_EMAIL, outside the try: Config (config.py 6-27)
\* has no such attribute, the AttributeError is not caught either, and the
\* mailer is never called.  With SMTP disabled email_sent stays False.
submit_quiz_load(c) ==
    /\ pc[c] = "sq_load"
    /\ IF req[c].quiz_id \notin quizzes \/ quiz_data = <<>>
       THEN /\ Finish(c, Resp("error404", None))
            /\ UNCHANGED settings
       ELSE IF calculate_score(quiz_data, form_data).status = "KeyError"
       THEN /\ Finish(c, Resp("KeyError", None))
            /\ UNCHANGED settings
       ELSE /\ settings' = SettingsAfterGet
            /\ IF is_smtp_enabled
               THEN Finish(c, Resp("AttributeError", None))
               ELSE /\ pc' = [pc EXCEPT ![c] = "sq_insert"]
                    /\ UNCHANGED <<req, resp>>
    /\ UNCHANGED <<now, quizzes, users, scoring, results, session>>

\* db.add(result); db.commit() (user.py 292-303): submitted_at defaults to
\* utcnow() at the insert.
submit_quiz_insert(c) ==
    /\ pc[c] = "sq_insert"
    /\ LET result == NewResult(c)
       IN  /\ results' = results \cup {result}
           /\ Finish(c, Resp("view", result.id))
    /\ UNCHANGED <<now, settings, quizzes, users, scoring, session>>

\* -------------------------------------------------------------- take_quiz
\* GET /user/quiz/<q> (user.py 111-143): the login checks, the attempts check
\* and, when it passes, load_quiz_by_id and the form with its attempt number.
take_quiz(c, q) ==
    /\ pc[c] = "idle"
    /\ IF session[c].role # "user" \/ get_current_user(c) = None
       THEN /\ Finish(c, Resp("register", None))
            /\ UNCHANGED <<settings, session>>
       ELSE LET user == get_current_user(c)
                attempt_count == Cardinality(PairResults(user, q))
                max_attempts == get_max_attempts
                attempt_number == attempt_count + 1
            IN  /\ settings' = SettingsAfterGet
                /\ IF LimitReached(attempt_count, max_attempts)
                   THEN /\ session' = [session EXCEPT ![c].message = MsgLimit]
                        /\ pc' = [pc EXCEPT ![c] = "tq_latest"]
                        /\ req' = [req EXCEPT ![c] =
                                      [NoReq EXCEPT !.user = user, !.quiz_id = q,
                                                    !.attempt_count = attempt_count,
                                                    !.max_attempts = max_attempts]]
                        /\ resp' = [resp EXCEPT ![c] = NoResp]
                   ELSE IF q \notin quizzes \/ quiz_data = <<>>
                   THEN /\ Finish(c, Resp("error404", None))
                        /\ UNCHANGED session
                   ELSE /\ Finish(c, [Resp("quiz", None) EXCEPT
                                          !.attempt_number = attempt_number])
                        /\ UNCHANGED session
    /\ UNCHANGED <<now, quizzes, users, scoring, results>>

take_quiz_latest(c) == RedirectToLatest(c, "tq_latest", "error_page")

\* ------------------------------------------------------------ view_result
\* A view_result that shows the row of that id, whoever owns it.
view_result_any_owner(c, result_id) ==
    /\ pc[c] = "idle"
    /\ IF session[c].role # "user" \/ get_current_user(c) = None
       THEN Finish(c, Resp("register", None))
       ELSE LET found == {r \in results : r.id = result_id}
            IN  IF found = {}
                THEN Finish(c, Resp("history", None))
                ELSE \E result \in found :
                        /\ pc' = [pc EXCEPT ![c] = "vr_attempts"]
                        /\ req' = [req EXCEPT ![c] =
                                      [NoReq EXCEPT !.user = get_current_user(c),
                                                    !.quiz_id = result.quiz_id,
                                                    !.result_id = result.id]]
                        /\ resp' = [resp EXCEPT ![c] = NoResp]
    /\ UNCHANGED <<now, settings, quizzes, users, scoring, results, session>>

\* GET /user/result/<result_id> (user.py 311-322): the login checks and the
\* query for the row, which must be the user's own.
view_result(c, result_id) ==
    /\ pc[c] = "idle"
    /\ IF session[c].role # "user" \/ get_current_user(c) = None
       THEN Finish(c, Resp("register", None))
       ELSE LET user == get_current_user(c)
                found == {r \in results : r.id = result_id /\ r.user_id = user}
            IN  IF found = {}
                THEN Finish(c, Resp("history", None))
                ELSE \E result \in found :
                        /\ pc' = [pc EXCEPT ![c] = "vr_attempts"]
                        /\ req' = [req EXCEPT ![c] =
                                      [NoReq EXCEPT !.user = user,
                                                    !.quiz_id = result.quiz_id,
                                                    !.result_id = result.id]]
                        /\ resp' = [resp EXCEPT ![c] = NoResp]
    /\ UNCHANGED <<now, settings, quizzes, users, scoring, results, session>>

\* The positions enumerate(all_attempts, start=1) can give the row `id` when
\* all_attempts is S ordered by submitted_at: None when the row is not in S,
\* else one more than the number of rows before it; rows of equal submitted_at
\* come in any order.
AttemptNumbers(S, id) ==
    IF \A r \in S : r.id # id
    THEN {None}
    ELSE LET row == CHOOSE r \in S : r.id = id
             before == {r \in S : r.submitted_at < row.submitted_at}
             ties == {r \in S : r.submitted_at = row.submitted_at /\ r.id # id}
         IN  {Cardinality(before) + 1 + k : k \in 0..Cardinality(ties)}

\* The rest of view_result (user.py 325-351): the pair's rows in submission
\* order, the row's position among them, get_max_attempts for can_retake, and
\* the message popped.
view_result_attempts(c) ==
    /\ pc[c] = "vr_attempts"
    /\ LET all_attempts == PairResults(req[c].user, req[c].quiz_id)
       IN  \E attempt_number \in AttemptNumbers(all_attempts, req[c].result_id) :
              /\ settings' = SettingsAfterGet
              /\ session' = [session EXCEPT ![c].message = NoMessage]
              /\ Finish(c, [kind |-> "result", result_id |-> req[c].result_id,
                            attempt_number |-> attempt_number,
                            can_retake |-> Cardinality(all_attempts) < get_max_attempts])
    /\ UNCHANGED <<now, quizzes, users, scoring, results>>

\* ------------------------------------------------------------------ admin
\* An admin_settings_update that only refuses what is above the maximum.
admin_settings_update_no_minimum(c, max_attempts, smtp_enabled) ==
    /\ pc[c] = "idle"
    /\ IF session[c].role # "admin"
       THEN /\ resp' = [resp EXCEPT ![c] = Resp("admin_login", None)]
            /\ UNCHANGED <<settings, session>>
       ELSE IF max_attempts > MaxAllowedAttempts
       THEN /\ session' = [session EXCEPT ![c].message = MsgAdmin]
            /\ UNCHANGED <<settings, resp>>
       ELSE /\ settings' =
                (SettingsAfterGet \ {CurrentSettings}) \cup
                    {[CurrentSettings EXCEPT !.max_attempts = max_attempts,
                                             !.smtp_enabled = smtp_enabled]}
            /\ session' = [session EXCEPT ![c].message = MsgAdmin]
            /\ UNCHANGED resp
    /\ UNCHANGED <<now, quizzes, users, scoring, results, pc, req>>

\* POST /admin/settings/update (admin.py 483-513) with the form's max_attempts
\* (None when missing or not an integer) and smtp_enabled.
admin_settings_update(c, max_attempts, smtp_enabled) ==
    /\ pc[c] = "idle"
    /\ IF session[c].role # "admin"
       THEN /\ resp' = [resp EXCEPT ![c] = Resp("admin_login", None)]
            /\ UNCHANGED <<settings, session>>
       ELSE IF max_attempts = None \/ max_attempts < 1
               \/ max_attempts > MaxAllowedAttempts
       THEN /\ session' = [session EXCEPT ![c].message = MsgAdmin]
            /\ UNCHANGED <<settings, resp>>
       ELSE /\ settings' =
                (SettingsAfterGet \ {CurrentSettings}) \cup
                    {[CurrentSettings EXCEPT !.max_attempts = max_attempts,
                                             !.smtp_enabled = smtp_enabled]}
            /\ session' = [session EXCEPT ![c].message = MsgAdmin]
            /\ UNCHANGED resp
    /\ UNCHANGED <<now, quizzes, users, scoring, results, pc, req>>

\* request.files.get('file') of an upload: none, or a file whose content is
\* not JSON, a JSON array holding "title", or a JSON object: without a title,
\* with a title only, with a whole question, or with a question that lacks
\* its answer, its wording or its options.
NoFile == [filename |-> ""]

UploadedJson ==
    {[type |-> "invalid"], [type |-> "array", value |-> <<"title">>]}
    \cup {[type |-> "object", value |-> v] :
             v \in {<<>>,
                    [title |-> "t"],
                    [title |-> "t", true_false |-> <<[question |-> "q", answer |-> PyTrue]>>],
                    [title |-> "t", true_false |-> <<[question |-> "q"]>>],
                    [title |-> "t", fill_in_the_blanks |-> <<[answer |-> <<"t", "r", "u", "e">>]>>],
                    [title |-> "t", mcqs |-> <<[question |-> "q", answer |-> McqOptions[1]]>>]}}

UploadedFiles == {NoFile} \cup {[filename |-> "quiz.json", json |-> j] : j \in UploadedJson}

\* all(key in quiz_data for key in ["title"]) (admin.py 104-105): a key of
\* an object, an element of an array.
required_keys(json) ==
    IF json.type = "object" THEN "title" \in DOMAIN json.value
    ELSE \E i \in DOMAIN json.value : json.value[i] = "title"

\* POST /admin/quiz/upload (admin.py 87-186).  The file is written under
\* quiz_<seconds>_<name> before the row is made; quiz_data["title"] of an
\* array raises TypeError, which the last except turns into a message.  With
\* SMTP enabled every student with an address is written to; a student
\* without one, or a send that fails, gets nothing.  The only bounds: a file
\* is taken up while the table has room for its row and the outbox for its
\* mails.
upload_quiz(c, file) ==
    /\ pc[c] = "idle"
    /\ Cardinality(quizzes) < MaxQuizzes
    /\ Len(outbox) < MaxQuizzes
    /\ resp' = IF session[c].role # "admin"
               THEN [resp EXCEPT ![c] = Resp("admin_login", None)] ELSE resp
    /\ IF session[c].role # "admin"
       THEN UNCHANGED <<settings, quizzes, session, outbox, uploads, files>>
       ELSE IF file = NoFile
       THEN /\ session' = [session EXCEPT ![c].message = "No file selected"]
            /\ UNCHANGED <<settings, quizzes, outbox, uploads, files>>
       ELSE IF file.json.type = "invalid"
       THEN /\ session' = [session EXCEPT ![c].message = "Invalid JSON file"]
            /\ UNCHANGED <<settings, quizzes, outbox, uploads, files>>
       ELSE IF ~required_keys(file.json)
       THEN /\ session' = [session EXCEPT ![c].message = "Invalid quiz format - must have 'title' field"]
            /\ UNCHANGED <<settings, quizzes, outbox, uploads, files>>
       ELSE LET filename == <<now, file.filename>>
            IN  /\ files' = [f \in DOMAIN files \cup {filename} |->
                                IF f = filename THEN file.json ELSE files[f]]
                /\ IF file.json.type # "object"
                   THEN /\ session' = [session EXCEPT ![c].message = "Error uploading quiz"]
                        /\ UNCHANGED <<settings, quizzes, outbox, uploads>>
                   ELSE LET new_quiz == [id |-> Max(quizzes \cup {0}) + 1,
                                         title |-> file.json.value.title,
                                         filename |-> filename]
                        IN  /\ quizzes' = quizzes \cup {new_quiz.id}
                            /\ uploads' = uploads \cup {new_quiz}
                            /\ settings' = SettingsAfterGet
                            /\ session' = [session EXCEPT ![c].message = "uploaded successfully"]
                            /\ IF is_smtp_enabled
                               THEN \E sent \in SUBSET StudentIds :
                                       outbox' = outbox \o
                                           SetToSeq({[to_email |-> u, quiz_id |-> new_quiz.id] : u \in sent})
                               ELSE UNCHANGED outbox
    /\ UNCHANGED <<now, users, results, pc, req, quiz_data, form_data, report,
                   args, returned>>

\* POST /admin/submissions/delete-all (admin.py 323-331)
admin_delete_all_submissions(c) ==
    /\ pc[c] = "idle"
    /\ IF session[c].role # "admin"
       THEN /\ resp' = [resp EXCEPT ![c] = Resp("admin_login", None)]
            /\ UNCHANGED <<results, session>>
       ELSE /\ results' = {}
            /\ session' = [session EXCEPT ![c].message = MsgAdmin]
            /\ UNCHANGED resp
    /\ UNCHANGED <<now, settings, quizzes, users, scoring, pc, req>>

\* ------------------------------------------------------------ the system
\* What the admin's settings form can carry as max_attempts.
SettingInputs == 0..MaxSetting \cup {MaxAllowedAttempts + 1}

Admins == Clients \ Students

\* The students' windows make the quiz requests, the administrator's makes
\* the admin requests.
Next ==
    \/ Tick
    \/ \E c \in Students, q \in InitialQuizzes : take_quiz(c, q)
    \/ \E c \in Students : take_quiz_latest(c)
    \/ \E c \in Students, q \in InitialQuizzes, a \in AttemptIds :
          submit_quiz(c, q, a)
    \/ \E c \in Students : submit_quiz_stale(c)
    \/ \E c \in Students : submit_quiz_stale_latest(c)
    \/ \E c \in Students : submit_quiz_limit(c)
    \/ \E c \in Students : submit_quiz_limit_latest(c)
    \/ \E c \in Students : submit_quiz_load(c)
    \/ \E c \in Students : submit_quiz_insert(c)
    \/ \E c \in Students, id \in 1..MaxResults : view_result(c, id)
    \/ \E c \in Students : view_result_attempts(c)
    \/ \E c \in Admins, m \in SettingInputs, smtp_enabled \in BOOLEAN :
          admin_settings_update(c, m, smtp_enabled)
    \/ \E c \in Admins : admin_delete_all_submissions(c)

Spec == Init /\ [][Next]_vars

\* The administrator uploads files and changes the settings, as time passes;
\* the settings form also carries a negative number and the greatest one
\* allowed.
SettingFormInputs == SettingInputs \cup {-1, MaxAllowedAttempts}

NextUpload ==
    \/ Tick
    \/ \E c \in Admins, file \in UploadedFiles : upload_quiz(c, file)
    \/ \E c \in Admins, m \in SettingFormInputs, smtp_enabled \in BOOLEAN :
          admin_settings_update(c, m, smtp_enabled)

SpecUpload == Init /\ [][NextUpload]_vars

\* normalize called on a text of letters, whitespace, angle brackets and the
\* punctuation it replaces, then on what it returned.
Letters == {"T", "e"}

Alphabet == Letters \cup Whitespace \cup Brackets \cup Punctuation

Texts(alphabet, n) == UNION {[1..k -> alphabet] : k \in 0..n}

InitNormalize ==
    /\ InitWith({})
    /\ quiz_data = <<>>
    /\ form_data = <<>>
    /\ report = NoReport
    /\ NoUploads
    /\ \E text \in Texts(Alphabet, MaxLen) : args = <<text>>
    /\ returned = <<>>

normalize_call ==
    /\ Len(returned) < 2
    /\ returned' = Append(returned,
                          normalize(IF returned = <<>> THEN args[1]
                                                      ELSE returned[Len(returned)]))
    /\ UNCHANGED <<now, settings, quizzes, users, results, session, pc, req, resp,
                   quiz_data, form_data, report, outbox, uploads, files, args>>

SpecNormalize == InitNormalize /\ [][normalize_call]_vars

\* The system with max_attempts held at the value M an earlier
\* admin_settings_update gave it: the settings row exists, and nothing
\* changes it.
InitFixedLimit ==
    \E M \in 1..MaxSetting :
        InitWith({[id |-> 1, max_attempts |-> M, smtp_enabled |-> FALSE]})
            /\ NoScoring

NextFixedLimit == Next /\ UNCHANGED settings

SpecFixedLimit == InitFixedLimit /\ [][NextFixedLimit]_vars

\* The answers "true" and "false".
TallyValues == {<<"t", "r", "u", "e">>, <<"f", "a", "l", "s", "e">>}

\* The submissions of a quiz whose file may be malformed.  The files: {}, one
\* question of any kind, whole or lacking a key, or a whole true/false
\* question followed by a second one.  The form: posted empty, or with
\* every field answered "true".  The settings table is empty, or its row is
\* as an earlier admin_settings_update left it.
WholeTfQuestions == {q \in TfQuestions : RequiredKeys("true_false") \subseteq DOMAIN q}

SubmitQuizzes ==
    {<<>>}
    \cup {[fill_in_the_blanks |-> <<q>>] : q \in FibQuestions}
    \cup {[true_false |-> <<q>>] : q \in TfQuestions \cup {[answer |-> PyTrue]}}
    \cup {[mcqs |-> <<q>>] : q \in McqQuestions}
    \cup {[true_false |-> <<q1, q2>>] : q1 \in WholeTfQuestions, q2 \in TfQuestions}

InitSubmit ==
    /\ \E rows \in {{}} \cup
              {{[id |-> 1, max_attempts |-> M, smtp_enabled |-> smtp_enabled]} :
                  M \in 1..MaxSetting, smtp_enabled \in BOOLEAN} :
          InitWith(rows)
    /\ quiz_data \in SubmitQuizzes
    /\ form_data \in {<<>>, [field \in FormFields(quiz_data) |-> <<"t", "r", "u", "e">>]}
    /\ report = NoReport
    /\ NoUploads
    /\ NoCall

NextSubmit ==
    \/ \E c \in Students, q \in InitialQuizzes, a \in AttemptIds :
          submit_quiz(c, q, a)
    \/ \E c \in Students : submit_quiz_stale(c)
    \/ \E c \in Students : submit_quiz_stale_latest(c)
    \/ \E c \in Students : submit_quiz_limit(c)
    \/ \E c \in Students : submit_quiz_limit_latest(c)
    \/ \E c \in Students : submit_quiz_load(c)
    \/ \E c \in Students : submit_quiz_insert(c)

SpecSubmit == InitSubmit /\ [][NextSubmit]_vars

\* One call of calculate_score (user.py 227-232), for every quiz file of at
\* most MaxQuestions questions and every submission of its form.
InitScore ==
    /\ InitWith({})
    /\ \E nf \in 0..MaxQuestions, nt \in 0..MaxQuestions, nm \in 0..MaxQuestions :
          /\ nf + nt + nm <= MaxQuestions
          /\ \E f \in [1..nf -> FibQuestions], t \in [1..nt -> TfQuestions],
                m \in [1..nm -> McqQuestions], present \in SUBSET Kinds :
                /\ nf > 0 => "fill_in_the_blanks" \in present
                /\ nt > 0 => "true_false" \in present
                /\ nm > 0 => "mcqs" \in present
                /\ quiz_data = [kind \in present |->
                                   CASE kind = "fill_in_the_blanks" -> f
                                     [] kind = "true_false" -> t
                                     [] kind = "mcqs" -> m]
    /\ form_data \in Submissions(quiz_data)
    /\ report = NoReport
    /\ NoUploads
    /\ NoCall

submit_quiz_score ==
    /\ report = NoReport
    /\ report' = calculate_score(quiz_data, form_data)
    /\ UNCHANGED <<now, settings, quizzes, users, results, session, pc, req, resp,
                   quiz_data, form_data, outbox, uploads, files, args, returned>>

NextScore == submit_quiz_score

SpecScore == InitScore /\ [][NextScore]_vars

\* The counters submit_quiz works out again from the result groups for the
\* notification (user.py 241-252).
notification_total_questions(score_results) ==
    Len(score_results.fill_in_the_blanks) + Len(score_results.true_false)
      + Len(score_results.mcqs)

notification_correct_count(score_results) ==
    Cardinality({<<section, i>> \in Kinds \X (1..notification_total_questions(score_results)) :
                    /\ i <= Len(score_results[section])
                    /\ score_results[section][i].is_correct})

\* One call of calculate_score for every quiz of at most MaxTally questions
\* of one wording and every submission that answers each with "true" or
\* "false" or leaves it blank.
TallyQuestion(kind) ==
    CASE kind = "fill_in_the_blanks" -> [question |-> "q", answer |-> <<"t", "r", "u", "e">>]
      [] kind = "true_false" -> [question |-> "q", answer |-> PyTrue]
      [] kind = "mcqs" -> [question |-> "q", options |-> McqOptions, answer |-> McqOptions[1]]

InitTally ==
    /\ InitWith({})
    /\ \E nf \in 0..MaxTally, nt \in 0..MaxTally, nm \in 0..MaxTally :
          /\ nf + nt + nm <= MaxTally
          /\ quiz_data = [kind \in Kinds |->
                             [i \in 1..(CASE kind = "fill_in_the_blanks" -> nf
                                           [] kind = "true_false" -> nt
                                           [] kind = "mcqs" -> nm) |->
                                 TallyQuestion(kind)]]
    /\ \E fields \in SUBSET FormFields(quiz_data) :
          form_data \in [fields -> TallyValues]
    /\ report = NoReport
    /\ NoUploads
    /\ NoCall

SpecTally == InitTally /\ [][NextScore]_vars

\* is_fuzzy_correct called on a submitted and an expected answer with a
\* threshold, and the scoring of the quiz of one fill-in-the-blank question
\* that expects the one and is answered with the other.
Answers ==
    Texts({"T", "t", " ", "-"}, MaxAnswerLen)
        \cup {<<"P", "a", "r", "i", "s">>, <<"p", "a", "r", "i", "s", " ">>}

Thresholds == {0, Threshold, 100, 101}

InitFuzzy ==
    /\ InitWith({})
    /\ \E user_answer \in Answers, correct_answer \in Answers, threshold \in Thresholds :
          /\ args = <<user_answer, correct_answer, threshold>>
          /\ quiz_data = [fill_in_the_blanks |->
                             <<[question |-> "q", answer |-> correct_answer]>>]
          /\ form_data = [field \in {FieldName("fib", 0)} |-> user_answer]
    /\ report = NoReport
    /\ NoUploads
    /\ returned = <<>>

is_fuzzy_correct_call ==
    /\ returned = <<>>
    /\ returned' = <<is_fuzzy_correct(args[1], args[2], args[3])>>
    /\ UNCHANGED <<now, settings, quizzes, users, results, session, pc, req, resp,
                   quiz_data, form_data, report, outbox, uploads, files, args>>

NextFuzzy == is_fuzzy_correct_call \/ submit_quiz_score

SpecFuzzy == InitFuzzy /\ [][NextFuzzy]_vars

\* ------------------------------------------------------------ properties

Count(u, q) == Cardinality(PairResults(u, q))

\* C1: with max_attempts held fixed, no (user, quiz) pair ever has more
\* Results than max_attempts, whatever the interleaving of the requests.
C1_AtMostMaxAttempts ==
    \A u \in StudentIds, q \in InitialQuizzes : Count(u, q) <= get_max_attempts

\* Two submissions carry the same form: the same student, quiz and attempt_id.
SameForm(c, d) ==
    /\ req[c].user = req[d].user
    /\ req[c].quiz_id = req[d].quiz_id
    /\ req[c].attempt_id.kind = "int"
    /\ req[c].attempt_id = req[d].attempt_id

\* C2: one form gives at most one Result: two submissions of the same form
\* are never both past every guard, each about to insert its own Result.
C2_OneResultPerForm ==
    \A c, d \in Students :
        (c # d /\ pc[c] = "sq_insert" /\ pc[d] = "sq_insert") => ~SameForm(c, d)

\* C3: take_quiz renders the quiz, and submit_quiz goes on to insert, exactly
\* when the count of the pair's Results the request reads is below the
\* max_attempts it reads; at or above it both refuse.
C3_CanAttempt ==
    /\ [](\A c \in Students :
            pc[c] \in {"sq_load", "sq_insert"} =>
                req[c].attempt_count < req[c].max_attempts)
    /\ [][\A c \in Students :
            /\ (pc[c] = "sq_limit" /\ pc'[c] # "sq_limit") =>
                 LET count == Count(req[c].user, req[c].quiz_id)
                 IN  /\ req'[c].attempt_count = count
                     /\ req'[c].max_attempts = get_max_attempts
                     /\ pc'[c] = "sq_load" <=> count < get_max_attempts
                     /\ pc'[c] = "sq_limit_latest" <=> count >= get_max_attempts
            /\ (pc[c] = "idle" /\ pc'[c] = "tq_latest") =>
                 Count(req'[c].user, req'[c].quiz_id) >= get_max_attempts
            /\ (pc[c] = "idle" /\ resp'[c].kind = "quiz" /\ resp'[c] # resp[c]) =>
                 \E q \in quizzes :
                    /\ Count(get_current_user(c), q) < get_max_attempts
                    /\ resp'[c].attempt_number = Count(get_current_user(c), q) + 1
         ]_vars

\* C3's case: one request refused with the count equal to max_attempts, another
\* let through with the count one below it.
C3_Witness ==
    \E c, d \in Students :
        /\ pc[c] = "tq_latest" /\ req[c].attempt_count = req[c].max_attempts
        /\ pc[d] = "sq_insert" /\ req[d].attempt_count + 1 = req[d].max_attempts

\* C4 as stated: once a request was refused because the pair's count had
\* reached max_attempts, no later attempts check for the pair lets a
\* submission through.
C4_ExhaustedIsTerminal ==
    [][\A c, d \in Students :
          (/\ pc[c] \in {"sq_limit_latest", "tq_latest"}
           /\ req[c].attempt_count = req[c].max_attempts
           /\ pc[d] = "sq_limit"
           /\ req[d].user = req[c].user /\ req[d].quiz_id = req[c].quiz_id)
          => pc'[d] # "sq_load"
      ]_vars

\* C4 as amended: while the pair is exhausted (count >= max_attempts), a
\* Result is appended only by a request whose reading of the count or of the
\* limit is no longer the current one.
C4_ExhaustedUntilReopened ==
    [][\A c \in Students :
          (/\ pc[c] = "sq_insert" /\ pc'[c] = "idle"
           /\ Count(req[c].user, req[c].quiz_id) >= get_max_attempts)
          => \/ req[c].attempt_count # Count(req[c].user, req[c].quiz_id)
             \/ req[c].max_attempts # get_max_attempts
      ]_vars

\* C4's case: the pair is exhausted and a request that read a smaller count
\* stands at the insert.
C4_Witness ==
    \E c \in Students :
        /\ pc[c] = "sq_insert"
        /\ Count(req[c].user, req[c].quiz_id) >= get_max_attempts
        /\ req[c].attempt_count < Count(req[c].user, req[c].quiz_id)
        /\ req[c].max_attempts = get_max_attempts

\* C5: a submission whose attempt_id is at most the count of the pair's
\* Results is refused as stale and inserts nothing; one whose attempt_id is
\* greater goes on to the attempts check.
C5_StaleToken ==
    \A c \in Students :
        /\ pc[c] = "sq_stale_latest" =>
              /\ req[c].attempt_id.kind = "int"
              /\ req[c].attempt_id.n <= req[c].existing_attempts_count
        /\ (pc[c] \in {"sq_limit", "sq_limit_latest", "sq_load", "sq_insert"}
            /\ req[c].attempt_id.kind = "int") =>
              req[c].attempt_id.n > req[c].existing_attempts_count

\* C5's case: attempt_id 1 posted when the pair has one Result.
C5_Witness ==
    \E c \in Students :
        /\ pc[c] = "sq_stale_latest"
        /\ req[c].attempt_id.n = 1
        /\ req[c].existing_attempts_count = 1
        /\ Count(req[c].user, req[c].quiz_id) = 1

\* The submission that student c starts in this step is sent back as a
\* duplicate by the first check of submit_quiz.
RefusedAsDuplicate(c, q, a) ==
    /\ submit_quiz(c, q, a)
    /\ pc'[c] = "idle"
    /\ resp'[c].kind = "view"

Age(r) == now - r.submitted_at

\* Student c starts a submission in this step and it passes the duplicate
\* check: the request goes on to its next query.
PassesDuplicateCheck(c) ==
    pc[c] = "idle" /\ pc'[c] \in {"sq_stale", "sq_limit"}

\* Student c starts a submission in this step and it is sent back as a
\* duplicate, to the Result row.
SentBackAsDuplicate(c, row) ==
    /\ pc[c] = "idle" /\ pc'[c] = "idle"
    /\ resp'[c].kind = "view" /\ resp'[c].result_id = row.id
    /\ <<resp'[c], session'[c]>> # <<resp[c], session[c]>>

\* C6 as stated: a submission is a duplicate exactly when the pair has a
\* Result less than 5 seconds old; a Result exactly 5 seconds old does not
\* make it one.
C6_DuplicateStrictWindow ==
    [][\A c \in Students :
          /\ PassesDuplicateCheck(c) =>
                ~\E r \in PairResults(req'[c].user, req'[c].quiz_id) :
                      Age(r) < DuplicateWindow
          /\ \A row \in results :
                SentBackAsDuplicate(c, row) =>
                    \E r \in PairResults(row.user_id, row.quiz_id) :
                        Age(r) < DuplicateWindow
      ]_vars

\* C6 as amended: a submission is a duplicate exactly when the pair has a
\* Result at most 5 seconds old; a Result exactly 5 seconds old makes it one.
C6_DuplicateInclusiveWindow ==
    [][\A c \in Students :
          /\ PassesDuplicateCheck(c) =>
                ~\E r \in PairResults(req'[c].user, req'[c].quiz_id) :
                      Age(r) <= DuplicateWindow
          /\ \A row \in results :
                SentBackAsDuplicate(c, row) =>
                    /\ row.user_id = get_current_user(c)
                    /\ Age(row) <= DuplicateWindow
      ]_vars

\* C6's case: a submission was sent back as a duplicate of a Result exactly
\* 5 seconds old.
C6_Witness ==
    \E c \in Students :
        /\ pc[c] = "idle"
        /\ resp[c].kind = "view"
        /\ session[c].message = MsgDuplicate
        /\ \A r \in results : Age(r) = DuplicateWindow
        /\ \E r \in results : r.id = resp[c].result_id

\* C7: every refusal (duplicate, stale attempt_id, limit reached, in
\* submit_quiz or take_quiz) ends in a redirect to the pair's most recent
\* Result with a message in the session, never in an error, whatever the
\* admin deletes in between.
C7_RedirectToLatest ==
    [][\A c \in Students :
          /\ (pc[c] \in {"sq_stale_latest", "sq_limit_latest", "tq_latest"}
              /\ pc'[c] = "idle") =>
                /\ resp'[c].kind = "view"
                /\ session'[c].message # NoMessage
                /\ \E r \in LatestOf(PairResults(req[c].user, req[c].quiz_id)) :
                      resp'[c].result_id = r.id
          /\ \A q \in InitialQuizzes, a \in AttemptIds :
                RefusedAsDuplicate(c, q, a) =>
                    /\ session'[c].message # NoMessage
                    /\ \E r \in LatestOf(PairResults(get_current_user(c), q)) :
                          resp'[c].result_id = r.id
      ]_vars

\* C8: the attempt number view_result shows is never None and is the rank of
\* the Result among the pair's Results by submitted_at, counted from 1.
C8_AttemptNumbers ==
    [][\A c \in Students :
          (pc[c] = "vr_attempts" /\ pc'[c] = "idle") =>
             /\ resp'[c].attempt_number # None
             /\ \E row \in results :
                   /\ row.id = req[c].result_id
                   /\ resp'[c].attempt_number =
                        1 + Cardinality({r \in PairResults(row.user_id, row.quiz_id) :
                                            r.submitted_at < row.submitted_at})
      ]_vars

\* C9: the Result a submission inserts after reading the count N is numbered
\* N + 1 by view_result, the number the notification mail carried.
C9_AttemptNumberEndToEnd ==
    [][\A c \in Students :
          (pc[c] = "sq_insert" /\ pc'[c] = "idle") =>
             AttemptNumbers({r \in results' : /\ r.user_id = req[c].user
                                               /\ r.quiz_id = req[c].quiz_id},
                            resp'[c].result_id)
               = {req[c].attempt_count + 1}
      ]_vars

\* The true/false question i of the quiz scored has no field in the submission.
TfAbsent(i) ==
    /\ i \in 1..Len(Questions(quiz_data, "true_false"))
    /\ FieldName("tf", i - 1) \notin DOMAIN form_data

\* The submission with the field of true/false question i set to "false".
WithFalse(i) ==
    [k \in DOMAIN form_data \cup {FieldName("tf", i - 1)} |->
        IF k = FieldName("tf", i - 1) THEN <<"f", "a", "l", "s", "e">>
                                      ELSE form_data[k]]

\* C10 as stated: a true/false question whose field is absent is scored as
\* the answer "false" would be: correct exactly when the expected answer is
\* False.
C10_AbsentScoredAsFalse ==
    report.status = "ok" =>
        \A i \in 1..MaxQuestions :
            TfAbsent(i) =>
                /\ report.results.true_false[i].is_correct
                      <=> quiz_data.true_false[i].answer = PyFalse
                /\ report.results.true_false[i].is_correct
                      = calculate_score(quiz_data, WithFalse(i))
                            .results.true_false[i].is_correct

\* C10 as amended: a true/false question whose field is absent keeps the
\* answer None and is marked incorrect whether the expected answer is True or
\* False; a field posted as "false" is correct exactly when the expected
\* answer is False.
C10_AbsentScoredIncorrect ==
    report.status = "ok" =>
        \A i \in 1..Len(report.results.true_false) :
            LET scored == report.results.true_false[i]
            IN  /\ TfAbsent(i) =>
                      /\ scored.user_answer = PyNone
                      /\ ~scored.is_correct
                /\ (/\ ~TfAbsent(i)
                    /\ form_data[FieldName("tf", i - 1)] = <<"f", "a", "l", "s", "e">>)
                   => (scored.is_correct <=> scored.correct_answer = PyFalse)

\* C10's case: a quiz scored with the field of a question absent whose
\* expected answer is False, and one posted as "false".
C10_Witness ==
    /\ report.status = "ok"
    /\ \E i, j \in 1..Len(report.results.true_false) :
          /\ TfAbsent(i)
          /\ report.results.true_false[i].correct_answer = PyFalse
          /\ ~TfAbsent(j)
          /\ form_data[FieldName("tf", j - 1)] = <<"f", "a", "l", "s", "e">>
          /\ report.results.true_false[j].is_correct

\* The number of questions of the quiz scored.
TotalQuestions ==
    Len(Questions(quiz_data, "fill_in_the_blanks"))
      + Len(Questions(quiz_data, "true_false"))
      + Len(Questions(quiz_data, "mcqs"))

\* C11: for a well-formed quiz and any submission, the percentage
\* calculate_score returns is at least 0 and at most 100.
C11_PercentageInRange ==
    report.status = "ok" =>
        /\ FloatLeq(Zero, report.percentage)
        /\ FloatLeq(report.percentage, FromInt(100))

\* C11's case: a quiz with questions scored at the upper end, 100.
C11_Witness ==
    /\ report.status = "ok"
    /\ TotalQuestions = MaxQuestions
    /\ report.percentage = FromInt(100)

\* The quiz with every question-kind key present, an absent one as the
\* empty list.
WithEveryKey(exam_data) == [kind \in Kinds |-> Questions(exam_data, kind)]

\* C12: a quiz of no questions scores 0 with three empty groups, whether
\* its keys are present with empty lists or absent; and any quiz scores the
\* same with an absent key as with that key mapped to the empty list.
C12_EmptyQuiz ==
    report.status = "ok" =>
        /\ TotalQuestions = 0 =>
              /\ report.percentage = Zero
              /\ report.results = [fill_in_the_blanks |-> <<>>,
                                   true_false |-> <<>>,
                                   mcqs |-> <<>>]
        /\ report = calculate_score(WithEveryKey(quiz_data), form_data)

\* C12's case: a quiz of no questions scored, one key absent and another
\* present with the empty list.
C12_Witness ==
    /\ report.status = "ok"
    /\ TotalQuestions = 0
    /\ "true_false" \notin DOMAIN quiz_data
    /\ "mcqs" \in DOMAIN quiz_data

\* C13 as stated: percentage * total == correct * 100, for the total and the
\* correct count submit_quiz works out from the result groups, which are the
\* numbers of questions and of results marked correct.
C13_PercentageIdentity ==
    report.status = "ok" =>
        LET total == notification_total_questions(report.results)
            correct == notification_correct_count(report.results)
        IN  /\ total = TotalQuestions
            /\ float_times(report.percentage, total) = FromInt(correct * 100)

\* C13 as amended: the percentage is the float (correct / total) * 100, each
\* operation rounded to the nearest float, for the counters submit_quiz works
\* out from the result groups; percentage * total is within 1 of
\* correct * 100.
C13_PercentageRounded ==
    report.status = "ok" =>
        LET total == notification_total_questions(report.results)
            correct == notification_correct_count(report.results)
            product == float_times(report.percentage, total)
        IN  /\ total = TotalQuestions
            /\ correct <= total
            /\ report.percentage =
                  IF total = 0 THEN Zero
                  ELSE float_times(true_divide(correct, total), 100)
            /\ FloatLeq(product, FromInt(correct * 100 + 1))
            /\ correct > 0 => FloatLeq(FromInt(correct * 100 - 1), product)

\* C13's case: one correct fill-in-the-blank, one incorrect true/false and one
\* correct multiple choice, 2 of 3, where percentage * 3 is not 200.
C13_Witness ==
    /\ report.status = "ok"
    /\ Len(report.results.fill_in_the_blanks) = 1
    /\ Len(report.results.true_false) = 1
    /\ Len(report.results.mcqs) = 1
    /\ report.results.fill_in_the_blanks[1].is_correct
    /\ ~report.results.true_false[1].is_correct
    /\ report.results.mcqs[1].is_correct
    /\ float_times(report.percentage, 3) # FromInt(200)

\* What the submission holds under the key prefix_idx: the value posted, or
\* the default.
Posted(prefix, idx, default) ==
    IF <<prefix, idx>> \in DOMAIN form_data THEN form_data[<<prefix, idx>>]
                                            ELSE default

\* C14: each result group has one entry per question of its kind, in the
\* order of the quiz; entry i holds question i and its expected answer, and
\* the answer posted under fib_, tf_ or mcq_ with the same index, from 0.
C14_GroupsFollowQuiz ==
    report.status = "ok" =>
        /\ \A kind \in Kinds :
              /\ Len(report.results[kind]) = Len(Questions(quiz_data, kind))
              /\ \A i \in 1..Len(report.results[kind]) :
                    report.results[kind][i].question
                       = Questions(quiz_data, kind)[i].question
        /\ \A i \in 1..Len(report.results.fill_in_the_blanks) :
              LET scored == report.results.fill_in_the_blanks[i]
              IN  /\ scored.correct_answer = strip(quiz_data.fill_in_the_blanks[i].answer)
                  /\ scored.user_answer = strip(Posted("fib", i - 1, <<>>))
        /\ \A i \in 1..Len(report.results.true_false) :
              LET scored == report.results.true_false[i]
              IN  /\ scored.correct_answer = quiz_data.true_false[i].answer
                  /\ scored.user_answer = PyNone <=>
                        <<"tf", i - 1>> \notin DOMAIN form_data
                  /\ scored.user_answer = PyTrue <=>
                        lower(Posted("tf", i - 1, <<>>)) = <<"t", "r", "u", "e">>
        /\ \A i \in 1..Len(report.results.mcqs) :
              LET scored == report.results.mcqs[i]
              IN  /\ scored.correct_answer = quiz_data.mcqs[i].answer
                  /\ scored.user_answer = Posted("mcq", i - 1, <<>>)

\* C14's case: two true/false questions with different expected answers and
\* different answers posted, scored.
C14_Witness ==
    /\ report.status = "ok"
    /\ Len(report.results.true_false) = 2
    /\ report.results.true_false[1].correct_answer = PyTrue
    /\ report.results.true_false[2].correct_answer = PyFalse
    /\ report.results.true_false[1].user_answer = PyFalse
    /\ report.results.true_false[2].user_answer = PyNone

\* C15: a multiple choice question is correct exactly when the value posted
\* under mcq_i, the empty string if there is none, is the expected option,
\* character for character; a quiz of one such question answered with its
\* option scores 100.
C15_McqExactMatch ==
    report.status = "ok" =>
        /\ \A i \in 1..Len(report.results.mcqs) :
              /\ report.results.mcqs[i].is_correct
                    <=> Posted("mcq", i - 1, <<>>) = quiz_data.mcqs[i].answer
              /\ <<"mcq", i - 1>> \notin DOMAIN form_data =>
                    report.results.mcqs[i].user_answer = <<>>
        /\ (/\ TotalQuestions = 1
            /\ Len(report.results.mcqs) = 1
            /\ Posted("mcq", 0, <<>>) = quiz_data.mcqs[1].answer)
           => report.percentage = FromInt(100)

\* C15's case: a quiz of one multiple choice question scored 100 on the
\* option posted.
C15_Witness ==
    /\ report.status = "ok"
    /\ TotalQuestions = 1
    /\ Len(report.results.mcqs) = 1
    /\ report.results.mcqs[1].user_answer = <<"T", "r", "u", "e">>
    /\ report.results.mcqs[1].is_correct
    /\ report.percentage = FromInt(100)

\* C16: when a question of the quiz file lacks a key calculate_score reads,
\* the scoring step of submit_quiz ends the request in the KeyError, with the
\* results table and the outbox as they were; no request for such a quiz
\* comes to the insert, and no row and no e-mail ever exists for it.
C16_MalformedQuizFails ==
    /\ [](RaisesKeyError(quiz_data) =>
            /\ results = {}
            /\ outbox = <<>>
            /\ \A c \in Students : pc[c] # "sq_insert")
    /\ [][\A c \in Students :
            (pc[c] = "sq_load" /\ pc'[c] # "sq_load" /\ RaisesKeyError(quiz_data))
               => /\ resp'[c] = Resp("KeyError", None)
                  /\ pc'[c] = "idle"
                  /\ results' = results
                  /\ outbox' = outbox]_vars

\* C16's case: with SMTP disabled, a submission of a quiz whose second
\* question lacks its answer has ended in the KeyError.
C16_Witness ==
    /\ Len(Questions(quiz_data, "true_false")) = 2
    /\ RaisesKeyError(quiz_data)
    /\ ~is_smtp_enabled
    /\ \E c \in Students : resp[c] = Resp("KeyError", None)

\* C17: every quizzes row upload_quiz made names a file that is a quiz whose
\* questions all have the keys scoring reads: a file with a question lacking
\* one was refused, and left no row.
C17_UploadRefusesMalformed ==
    \A new_quiz \in uploads :
        /\ files[new_quiz.filename].type = "object"
        /\ ~RaisesKeyError(files[new_quiz.filename].value)

\* C18: normalize is idempotent: called on what it returned for a text of
\* letters, whitespace, angle brackets and punctuation, it returns the same.
C18_NormalizeIdempotent ==
    Len(returned) = 2 => returned[2] = returned[1]

\* C18's case: a text of a capital, an angle bracket and a punctuation
\* mark, which normalize changed in every step, normalized twice.
C18_Witness ==
    /\ Len(returned) = 2
    /\ args[1] = <<"T", "<", "-">>
    /\ returned[1] = <<"t">>

\* C19: with a threshold of at most 100, is_fuzzy_correct holds of a
\* non-empty answer and itself, and of any two answers normalize maps to the
\* same string; the quiz of one fill-in-the-blank question answered with a
\* text that normalizes to what is expected scores 100.
C19_FuzzyReflexive ==
    /\ (returned # <<>> /\ args[3] <= 100) =>
           /\ (args[1] # <<>> /\ args[1] = args[2]) => returned[1]
           /\ normalize(args[1]) = normalize(args[2]) => returned[1]
    /\ (report.status = "ok" /\ normalize(args[1]) = normalize(args[2])) =>
           /\ report.results.fill_in_the_blanks[1].is_correct
           /\ report.percentage = FromInt(100)

\* C19's case: "Paris" expected and "paris " submitted, found correct at the
\* threshold 85 and scored 100.
C19_Witness ==
    /\ args = <<<<"p", "a", "r", "i", "s", " ">>, <<"P", "a", "r", "i", "s">>, Threshold>>
    /\ returned = <<TRUE>>
    /\ report.status = "ok"
    /\ report.percentage = FromInt(100)

\* C20: a submission of an existing, well-formed quiz that every guard of
\* submit_quiz let through (logged in, no Result in the duplicate window,
\* attempt number absent or above the count, count below max_attempts) goes
\* on to the insert, and the insert appends exactly one Result for the pair.
C20_AcceptedSubmitAppends ==
    [][\A c \in Students :
          /\ (/\ pc[c] = "sq_load" /\ pc'[c] # "sq_load"
              /\ req[c].quiz_id \in quizzes
              /\ quiz_data # <<>>
              /\ ~RaisesKeyError(quiz_data))
             => pc'[c] = "sq_insert"
          /\ (pc[c] = "sq_insert" /\ pc'[c] # "sq_insert")
             => /\ Cardinality(results') = Cardinality(results) + 1
                /\ Cardinality({r \in results' : r.user_id = req[c].user
                                                  /\ r.quiz_id = req[c].quiz_id})
                      = Cardinality(PairResults(req[c].user, req[c].quiz_id)) + 1]_vars

\* C21: max_attempts of every settings row is in 1..999; the row
\* get_or_create_settings makes on an empty table (here for upload_quiz) has
\* 3; an admin_settings_update whose max_attempts is missing, zero, negative
\* or above 999 leaves the settings table as it was.
C21_MaxAttemptsInRange ==
    /\ [](\A row \in settings : row.max_attempts \in 1..MaxAllowedAttempts)
    /\ [][\A c \in Admins :
            /\ (settings = {} /\ \E file \in UploadedFiles : upload_quiz(c, file))
                  => settings' \in {{}, {[id |-> 1, max_attempts |-> DefaultMaxAttempts,
                                         smtp_enabled |-> TRUE]}}
            /\ \A m \in SettingFormInputs \ (1..MaxAllowedAttempts) :
                  (\E smtp_enabled \in BOOLEAN : admin_settings_update(c, m, smtp_enabled))
                     => settings' = settings]_vars

\* C21's case: an update was refused before any row existed: the form was
\* answered, and the table is still empty.
C21_Witness ==
    /\ settings = {}
    /\ session["adm"].message = MsgAdmin

\* ------------------------------------------------- the settings row, by steps
\* GET /admin/settings (admin.py 455-481): the role check, then the query of
\* get_or_create_settings (utils.py 22): db.query(Settings).first().  A row
\* found is returned and the page rendered, the message popped; none found
\* leaves the request before its insert.
admin_settings(c) ==
    /\ pc[c] = "idle"
    /\ IF session[c].role # "admin"
       THEN /\ Finish(c, Resp("admin_login", None))
            /\ UNCHANGED session
       ELSE IF settings = {}
       THEN /\ pc' = [pc EXCEPT ![c] = "gs_add"]
            /\ resp' = [resp EXCEPT ![c] = NoResp]
            /\ UNCHANGED <<req, session>>
       ELSE /\ session' = [session EXCEPT ![c].message = NoMessage]
            /\ Finish(c, Resp("settings", None))
    /\ UNCHANGED <<now, settings, quizzes, users, scoring, results>>

\* The rest of get_or_create_settings when the query found nothing (utils.py
\* 23-27): a row of the column defaults is added and committed, whatever the
\* table holds by then; sqlite numbers it one past the greatest id.
get_or_create_settings_add(c) ==
    /\ pc[c] = "gs_add"
    /\ settings' = settings \cup
           {[id |-> Max({row.id : row \in settings} \cup {0}) + 1,
             max_attempts |-> DefaultMaxAttempts, smtp_enabled |-> TRUE]}
    /\ session' = [session EXCEPT ![c].message = NoMessage]
    /\ Finish(c, Resp("settings", None))
    /\ UNCHANGED <<now, quizzes, users, scoring, results>>

\* The settings table is empty and each browser is logged in as the student
\* or as the administrator (who may use several at once).
InitSettings ==
    /\ now = 0
    /\ settings = {}
    /\ quizzes = InitialQuizzes
    /\ users = InitialUsers
    /\ results = {}
    /\ session \in [Clients -> {LoggedIn(StudentRow), LoggedIn(AdminRow)}]
    /\ pc = [c \in Clients |-> "idle"]
    /\ req = [c \in Clients |-> NoReq]
    /\ resp = [c \in Clients |-> NoResp]
    /\ NoScoring

\* The browsers open the settings page and post the settings form.
NextSettings ==
    \/ \E c \in Clients : admin_settings(c)
    \/ \E c \in Clients : get_or_create_settings_add(c)
    \/ \E c \in Clients, m \in SettingFormInputs, smtp_enabled \in BOOLEAN :
          admin_settings_update(c, m, smtp_enabled)

SpecSettings == InitSettings /\ [][NextSettings]_vars

\* C22: the settings table never holds more than one row, however the calls
\* of get_or_create_settings interleave.
C22_SettingsSingleton == Cardinality(settings) <= 1

\* ------------------------------------------- the administrator's other forms
\* A delete_quiz that does not look at the session.
delete_quiz_unchecked(c, quiz_id) ==
    /\ pc[c] = "idle"
    /\ quizzes' = quizzes \ {quiz_id}
    /\ results' = {r \in results : r.quiz_id # quiz_id}
    /\ UNCHANGED <<now, settings, users, session, pc, req, resp, scoring>>

\* POST /admin/quiz/delete/<quiz_id> (admin.py 189-216): the quiz's file is
\* removed, then its results, then its row.
delete_quiz(c, quiz_id) ==
    /\ pc[c] = "idle"
    /\ IF session[c].role # "admin"
       THEN /\ resp' = [resp EXCEPT ![c] = Resp("admin_login", None)]
            /\ UNCHANGED <<quizzes, results, uploads, files, session>>
       ELSE IF quiz_id \in quizzes
       THEN LET rows == {quiz \in uploads : quiz.id = quiz_id}
                kept == DOMAIN files \ {quiz.filename : quiz \in rows}
            IN  /\ files' = [f \in kept |-> files[f]]
                /\ results' = {r \in results : r.quiz_id # quiz_id}
                /\ quizzes' = quizzes \ {quiz_id}
                /\ uploads' = uploads \ rows
                /\ session' = [session EXCEPT ![c].message = MsgAdmin]
                /\ UNCHANGED resp
       ELSE /\ session' = [session EXCEPT ![c].message = MsgAdmin]
            /\ UNCHANGED <<quizzes, results, uploads, files, resp>>
    /\ UNCHANGED <<now, settings, users, pc, req, quiz_data, form_data, report,
                   outbox, args, returned>>

\* POST /admin/quizzes/delete-all (admin.py 274-287): db.query(Quiz).delete()
\* removes the rows of quizzes and nothing else: no file, no result (the
\* relationship declares no cascade, and the engine of database.py leaves
\* sqlite's foreign keys unenforced).
admin_delete_all_quizzes(c) ==
    /\ pc[c] = "idle"
    /\ IF session[c].role # "admin"
       THEN /\ resp' = [resp EXCEPT ![c] = Resp("admin_login", None)]
            /\ UNCHANGED <<quizzes, uploads, session>>
       ELSE /\ quizzes' = {}
            /\ uploads' = {}
            /\ session' = [session EXCEPT ![c].message = MsgAdmin]
            /\ UNCHANGED resp
    /\ UNCHANGED <<now, settings, users, results, pc, req, quiz_data, form_data,
                   report, outbox, files, args, returned>>

\* The student numbers the user forms carry.
StudentNumbers == {"s1", "s2"}

\* POST /admin/users/add (admin.py 354-384): refused when the student number
\* is taken; sqlite numbers the new row one past the greatest id.
admin_add_user(c, user_id, password) ==
    /\ pc[c] = "idle"
    /\ IF session[c].role # "admin"
       THEN /\ resp' = [resp EXCEPT ![c] = Resp("admin_login", None)]
            /\ UNCHANGED <<users, session>>
       ELSE IF \E existing_user \in users : existing_user.user_id = user_id
       THEN /\ session' = [session EXCEPT ![c].message = MsgAdmin]
            /\ UNCHANGED <<users, resp>>
       ELSE /\ users' = users \cup
                   {[id |-> Max({u.id : u \in users} \cup {0}) + 1,
                     role |-> "user", user_id |-> user_id, password |-> password]}
            /\ session' = [session EXCEPT ![c].message = MsgAdmin]
            /\ UNCHANGED resp
    /\ UNCHANGED <<now, settings, quizzes, results, pc, req, scoring>>

\* POST /admin/users/edit (admin.py 387-420): the row of that id, whatever
\* its role, gets the form's student number and password unless another row
\* has the number.
admin_edit_user(c, user_db_id, user_id, password) ==
    /\ pc[c] = "idle"
    /\ IF session[c].role # "admin"
       THEN /\ resp' = [resp EXCEPT ![c] = Resp("admin_login", None)]
            /\ UNCHANGED <<users, session>>
       ELSE IF \A u \in users : u.id # user_db_id
       THEN /\ session' = [session EXCEPT ![c].message = MsgAdmin]
            /\ UNCHANGED <<users, resp>>
       ELSE IF \E existing_user \in users :
                  existing_user.user_id = user_id /\ existing_user.id # user_db_id
       THEN /\ session' = [session EXCEPT ![c].message = MsgAdmin]
            /\ UNCHANGED <<users, resp>>
       ELSE /\ users' = {IF u.id = user_db_id
                          THEN [u EXCEPT !.user_id = user_id, !.password = password]
                          ELSE u : u \in users}
            /\ session' = [session EXCEPT ![c].message = MsgAdmin]
            /\ UNCHANGED resp
    /\ UNCHANGED <<now, settings, quizzes, results, pc, req, scoring>>

\* POST /admin/users/delete/<user_db_id> (admin.py 423-445): the user's
\* results, then the row.
admin_delete_user(c, user_db_id) ==
    /\ pc[c] = "idle"
    /\ IF session[c].role # "admin"
       THEN /\ resp' = [resp EXCEPT ![c] = Resp("admin_login", None)]
            /\ UNCHANGED <<users, results, session>>
       ELSE IF \A u \in users : u.id # user_db_id
       THEN /\ session' = [session EXCEPT ![c].message = MsgAdmin]
            /\ UNCHANGED <<users, results, resp>>
       ELSE /\ results' = {r \in results : r.user_id # user_db_id}
            /\ users' = {u \in users : u.id # user_db_id}
            /\ session' = [session EXCEPT ![c].message = MsgAdmin]
            /\ UNCHANGED resp
    /\ UNCHANGED <<now, settings, quizzes, pc, req, scoring>>

\* An administrator turned the mail off and kept the limit of three.
InitAdmin ==
    /\ InitWith({[id |-> 1, max_attempts |-> DefaultMaxAttempts, smtp_enabled |-> FALSE]})
    /\ NoScoring

\* A student's browser and the administrator's send the quiz requests (with
\* no attempt_id); another browser of the student and the administrator's
\* send the administrator's forms.  The mail stays off, the limit is out of
\* reach, and a file is uploaded when no quiz is left.
NextAdmin ==
    \/ \E c \in {"c1", "adm"}, q \in InitialQuizzes : take_quiz(c, q)
    \/ \E c \in {"c1", "adm"}, q \in InitialQuizzes :
          submit_quiz(c, q, [kind |-> "absent", n |-> 0])
    \/ \E c \in Clients : submit_quiz_limit(c)
    \/ \E c \in Clients : submit_quiz_load(c)
    \/ \E c \in Clients : submit_quiz_insert(c)
    \/ \E c \in {"c2", "adm"}, file \in {NoFile, [filename |-> "quiz.json",
             json |-> [type |-> "object", value |-> [title |-> "t"]]]} :
          quizzes = {} /\ upload_quiz(c, file)
    \/ \E c \in {"c2", "adm"}, quiz_id \in InitialQuizzes : delete_quiz(c, quiz_id)
    \/ \E c \in {"c2", "adm"} : admin_delete_all_quizzes(c)
    \/ \E c \in {"c2", "adm"} : admin_delete_all_submissions(c)
    \/ \E c \in {"c2", "adm"}, user_id \in StudentNumbers :
          admin_add_user(c, user_id, "pw")
    \/ \E c \in {"c2", "adm"}, user_db_id \in StudentIds, user_id \in StudentNumbers :
          admin_edit_user(c, user_db_id, user_id, "pw")
    \/ \E c \in {"c2", "adm"}, user_db_id \in StudentIds : admin_delete_user(c, user_db_id)
    \/ \E c \in {"c2", "adm"}, m \in {None, MaxAllowedAttempts} :
          admin_settings_update(c, m, FALSE)

SpecAdmin == InitAdmin /\ [][NextAdmin]_vars

\* What the handlers store: the four tables, the quiz files and the mail.
Stored == <<settings, quizzes, users, results, uploads, files, outbox>>

\* C23: a state-changing admin request from a session whose role is not
\* "admin" changes nothing stored and is answered with the redirect to the
\* admin login; a take_quiz or submit_quiz from a session whose role is not
\* "user", or whose user row is gone, changes nothing stored and is answered
\* with the redirect to the student login.
C23_AuthorizationGating ==
    [][\A c \in Clients :
          /\ (/\ session[c].role # "admin"
              /\ \/ \E file \in UploadedFiles : upload_quiz(c, file)
                 \/ \E quiz_id \in InitialQuizzes : delete_quiz(c, quiz_id)
                 \/ admin_delete_all_quizzes(c)
                 \/ admin_delete_all_submissions(c)
                 \/ \E user_id \in StudentNumbers : admin_add_user(c, user_id, "pw")
                 \/ \E user_db_id \in StudentIds, user_id \in StudentNumbers :
                       admin_edit_user(c, user_db_id, user_id, "pw")
                 \/ \E user_db_id \in StudentIds : admin_delete_user(c, user_db_id)
                 \/ \E m \in {None, MaxAllowedAttempts} :
                       admin_settings_update(c, m, FALSE))
                => /\ UNCHANGED Stored
                   /\ resp'[c].kind = "admin_login"
          /\ (/\ session[c].role # "user" \/ get_current_user(c) = None
              /\ \/ \E q \in InitialQuizzes : take_quiz(c, q)
                 \/ \E q \in InitialQuizzes :
                       submit_quiz(c, q, [kind |-> "absent", n |-> 0]))
                => /\ UNCHANGED Stored
                   /\ pc'[c] = "idle"
                   /\ resp'[c].kind = "register"]_vars

\* C23's case: a student's browser was sent to the admin login, the
\* administrator's to the student login, and so was the browser of a student
\* whose row the administrator deleted.
C23_Witness ==
    /\ resp["c2"].kind = "admin_login"
    /\ resp["adm"].kind = "register"
    /\ resp["c1"].kind = "register"
    /\ session["c1"].role = "user"
    /\ get_current_user("c1") = None
    /\ Stored = <<{[id |-> 1, max_attempts |-> DefaultMaxAttempts, smtp_enabled |-> FALSE]},
                  InitialQuizzes, {AdminRow}, {}, {}, <<>>, <<>>>>

\* C24 as stated: while the quiz file is missing every submit_quiz is refused
\* (by the login checks, the duplicate window, the attempt id, the limit or
\* the 404), so no step of one changes anything stored.
C24_RejectionOnlySetsMessage ==
    [][quiz_data = <<>> => UNCHANGED Stored]_vars

\* C24: a step of submit_quiz other than the insert (every refusal is one)
\* adds no Result and sends no mail, and leaves quizzes, users and files as
\* they were; the settings table changes in one way only: get_max_attempts
\* creates the default row when the table is empty.
C24_RejectionFrame ==
    [][(\A c \in Students : pc[c] = "sq_insert" => pc'[c] = "sq_insert")
          => /\ UNCHANGED <<quizzes, users, results, uploads, files, outbox>>
             /\ settings' \in {settings, SettingsAfterGet}
             /\ settings # {} => settings' = settings]_vars

\* C24's case: the quiz file is missing, a submission got the 404, and the
\* settings table, empty at the start, holds the default row; nothing else
\* was stored.
C24_Witness ==
    /\ quiz_data = <<>>
    /\ \E c \in Students : resp[c].kind = "error404"
    /\ settings = {[id |-> 1, max_attempts |-> DefaultMaxAttempts, smtp_enabled |-> TRUE]}
    /\ results = {}
    /\ outbox = <<>>

\* C25: a submission that every guard let through and calculate_score
\* scored leaves the notification section with exactly one Result stored,
\* whatever the notification did; its email_sent is true only when SMTP was
\* enabled.
C25_NotificationKeepsSubmission ==
    [][\A c \in Students :
          (/\ pc[c] \in {"sq_load", "sq_insert"}
           /\ pc'[c] = "idle"
           /\ resp'[c].kind \notin {"error404", "KeyError"})
             => /\ Cardinality(results') = Cardinality(results) + 1
                /\ \A r \in results' \ results :
                      r.email_sent => is_smtp_enabled]_vars

\* C26: two distinct Results of one (user, quiz) pair were submitted more
\* than DuplicateWindow seconds apart.
C26_ResultsSpacedApart ==
    \A r1 \in results, r2 \in results :
        (r1 # r2 /\ r1.user_id = r2.user_id /\ r1.quiz_id = r2.quiz_id
           /\ r1.submitted_at <= r2.submitted_at)
          => r2.submitted_at - r1.submitted_at > DuplicateWindow

\* C27: every Result's quiz_id is the id of a row of quizzes and its user_id
\* the id of a row of users.
C27_ReferentialIntegrity ==
    \A r \in results :
        /\ r.quiz_id \in quizzes
        /\ r.user_id \in {u.id : u \in users}

\* The administrator lowers the limit to one and raises it to three again
\* while the student, in two windows, takes and submits the quiz and looks
\* at the results; the mail stays off.
InitLimit ==
    /\ InitWith({[id |-> 1, max_attempts |-> DefaultMaxAttempts, smtp_enabled |-> FALSE]})
    /\ NoScoring

NextLimit ==
    \/ \E c \in Students, q \in InitialQuizzes : take_quiz(c, q)
    \/ \E c \in Students : take_quiz_latest(c)
    \/ \E c \in Students, q \in InitialQuizzes :
          submit_quiz(c, q, [kind |-> "absent", n |-> 0])
    \/ \E c \in Students : submit_quiz_limit(c)
    \/ \E c \in Students : submit_quiz_limit_latest(c)
    \/ \E c \in Students : submit_quiz_load(c)
    \/ \E c \in Students : submit_quiz_insert(c)
    \/ \E c \in Students, id \in 1..MaxResults : view_result(c, id)
    \/ \E c \in Students : view_result_attempts(c)
    \/ \E c \in Admins, m \in {None, 1, DefaultMaxAttempts} :
          admin_settings_update(c, m, FALSE)

SpecLimit == InitLimit /\ [][NextLimit]_vars

Anonymous == [role |-> "", user_id |-> None, message |-> NoMessage]

\* POST /user/register (user.py 24-61): a browser already logged in is sent
\* on; an empty field, an unknown student number or a wrong password gets
\* the form again; else the session takes the row's id and the role "user".
user_register(c, user_id, password) ==
    /\ pc[c] = "idle"
    /\ LET found == {u \in users : u.user_id = user_id /\ u.role = "user"}
       IN  IF session[c].role = "admin"
           THEN /\ Finish(c, Resp("admin_dashboard", None))
                /\ UNCHANGED session
           ELSE IF session[c].role = "user"
           THEN /\ Finish(c, Resp("history", None))
                /\ UNCHANGED session
           ELSE IF user_id = "" \/ password = "" \/ found = {}
           THEN /\ Finish(c, Resp("register_error", None))
                /\ UNCHANGED session
           ELSE \E user \in found :
                   IF user.password # password
                   THEN /\ Finish(c, Resp("register_error", None))
                        /\ UNCHANGED session
                   ELSE /\ session' = [session EXCEPT ![c].user_id = user.id,
                                                      ![c].role = "user"]
                        /\ Finish(c, Resp("history", None))
    /\ UNCHANGED <<now, settings, quizzes, users, scoring, results>>

\* GET /logout (auth.py 93-97)
logout(c) ==
    /\ pc[c] = "idle"
    /\ session' = [session EXCEPT ![c] = Anonymous]
    /\ Finish(c, Resp("index", None))
    /\ UNCHANGED <<now, settings, quizzes, users, scoring, results>>

\* Two students have accounts, nobody is logged in at the students' browsers,
\* the mail is off and the limit is MaxSetting.
InitLogin ==
    /\ now = 0
    /\ settings = {[id |-> 1, max_attempts |-> MaxSetting, smtp_enabled |-> FALSE]}
    /\ quizzes = InitialQuizzes
    /\ users = InitialUsers \cup
                  {[id |-> 3, role |-> "user", user_id |-> "s2", password |-> "pw"]}
    /\ results = {}
    /\ session = [c \in Clients |-> IF c \in Students THEN Anonymous
                                                        ELSE LoggedIn(AdminRow)]
    /\ pc = [c \in Clients |-> "idle"]
    /\ req = [c \in Clients |-> NoReq]
    /\ resp = [c \in Clients |-> NoResp]
    /\ NoScoring

\* The students log in and out at either browser and make the quiz requests.
NextLogin ==
    \/ \E c \in Students, user_id \in StudentNumbers \cup {""}, password \in {"pw", "bad"} :
          user_register(c, user_id, password)
    \/ \E c \in Students : logout(c)
    \/ \E c \in Students, q \in InitialQuizzes : take_quiz(c, q)
    \/ \E c \in Students : take_quiz_latest(c)
    \/ \E c \in Students, q \in InitialQuizzes,
          a \in {[kind |-> "absent", n |-> 0], [kind |-> "int", n |-> 1]} :
          submit_quiz(c, q, a)
    \/ \E c \in Students : submit_quiz_stale(c)
    \/ \E c \in Students : submit_quiz_stale_latest(c)
    \/ \E c \in Students : submit_quiz_limit(c)
    \/ \E c \in Students : submit_quiz_limit_latest(c)
    \/ \E c \in Students : submit_quiz_load(c)
    \/ \E c \in Students : submit_quiz_insert(c)
    \/ \E c \in Students, id \in 1..MaxResults : view_result(c, id)
    \/ \E c \in Students : view_result_attempts(c)

SpecLogin == InitLogin /\ [][NextLogin]_vars

\* C29: whenever a browser gets a result page, or a redirect of submit_quiz
\* or take_quiz to one, the Result belongs to the user the browser's session
\* is logged in as; view_result goes on to the page only for such a row.
C29_OwnResultsOnly ==
    [][\A c \in Students :
          /\ (resp'[c] # resp[c] /\ resp'[c].kind \in {"result", "view"})
                => /\ session[c].role = "user"
                   /\ \E r \in results' :
                         /\ r.id = resp'[c].result_id
                         /\ r.user_id = session[c].user_id
          /\ (pc[c] = "idle" /\ pc'[c] = "vr_attempts")
                => \E r \in results :
                      /\ r.id = req'[c].result_id
                      /\ r.user_id = session[c].user_id]_vars

\* C29's case: each of the two students has a Result; one browser shows the
\* first student their own, the other was sent to the history when the second
\* student asked for the first one's Result.
C29_Witness ==
    \E c, d \in Students, r \in results :
        /\ {o.user_id : o \in results} = {2, 3}
        /\ r.user_id = 2
        /\ session[c].user_id = 2
        /\ resp[c].kind = "result" /\ resp[c].result_id = r.id
        /\ session[d].user_id = 3
        /\ resp[d].kind = "history"
        /\ session[d].message = MsgDuplicate

\* ------------------------------------------------- the other attempt numbers
\* The numberings enumerate(..., start=1) can give the rows S when each
\* (user, quiz) group is listed in the order of submitted_at: within a group
\* the numbers are 1..n, and a row submitted earlier has the smaller one.
\* Neither the SQL ORDER BY nor the stable sort of rows loaded without one
\* fixes the order of rows of equal submitted_at.
Numberings(S) ==
    {f \in [{r.id : r \in S} -> 1..Cardinality(S)] :
        \A r \in S, o \in S :
            (r.user_id = o.user_id /\ r.quiz_id = o.quiz_id) =>
                /\ f[r.id] <= Cardinality({g \in S : /\ g.user_id = r.user_id
                                                      /\ g.quiz_id = r.quiz_id})
                /\ r.id # o.id => f[r.id] # f[o.id]
                /\ r.submitted_at < o.submitted_at => f[r.id] < f[o.id]}

\* GET /user/history (user.py 66-102): for each row of quizzes, the user's
\* results of it sorted by submitted_at and numbered (83-91); a Result whose
\* quiz row is gone is in no such list.
user_history(c) ==
    /\ pc[c] = "idle"
    /\ IF session[c].role # "user" \/ get_current_user(c) = None
       THEN Finish(c, Resp("register", None))
       ELSE LET user == get_current_user(c)
                user_submissions == {r \in results : /\ r.quiz_id \in quizzes
                                                      /\ r.user_id = user}
            IN  \E f \in Numberings(user_submissions) :
                   Finish(c, [kind |-> "history_page", result_id |-> None,
                              attempt_number |-> None, attempt_numbers |-> f])
    /\ UNCHANGED <<now, settings, quizzes, users, scoring, results, session>>

\* GET /admin/scores (admin.py 219-257): for each user of role "user", the
\* results ordered by quiz_id and submitted_at, grouped by quiz_id and
\* numbered within the group.
view_scores(c) ==
    /\ pc[c] = "idle"
    /\ IF session[c].role # "admin"
       THEN Finish(c, Resp("admin_login", None))
       ELSE LET user_results ==
                    {r \in results : \E user \in users : /\ user.role = "user"
                                                          /\ r.user_id = user.id}
            IN  \E f \in Numberings(user_results) :
                   Finish(c, [kind |-> "scores", result_id |-> None,
                              attempt_number |-> None, attempt_numbers |-> f])
    /\ UNCHANGED <<now, settings, quizzes, users, scoring, results, session>>

\* A result store the submissions of the student can leave: the ids follow
\* the order of the inserts, two of which may fall into the same second.
\* The quiz is there, or was removed by admin_delete_all_quizzes.
InitNumbering ==
    /\ now = MaxTime
    /\ settings = {}
    /\ users = InitialUsers
    /\ session = [c \in Clients |-> IF c \in Students THEN LoggedIn(StudentRow)
                                                        ELSE LoggedIn(AdminRow)]
    /\ pc = [c \in Clients |-> "idle"]
    /\ req = [c \in Clients |-> NoReq]
    /\ resp = [c \in Clients |-> NoResp]
    /\ NoScoring
    /\ \E n \in 0..MaxResults, at \in [1..MaxResults -> Instants] :
          /\ \A i \in 1..MaxResults, j \in 1..MaxResults : i < j => at[i] <= at[j]
          /\ \A i \in 1..MaxResults : i > n => at[i] = MaxTime
          /\ results = {[id |-> i, user_id |-> StudentRow.id, quiz_id |-> 1,
                         submitted_at |-> at[i], email_sent |-> FALSE] : i \in 1..n}
    /\ quizzes \in {InitialQuizzes, {}}

\* The student opens the history and the result pages, the administrator
\* the scores.
NextNumbering ==
    \/ \E c \in Students : user_history(c)
    \/ \E c \in Students, id \in 1..MaxResults : view_result(c, id)
    \/ \E c \in Students : view_result_attempts(c)
    \/ \E c \in Admins : view_scores(c)

SpecNumbering == InitNumbering /\ [][NextNumbering]_vars

\* C30: the history page, the result page and the scores page give every
\* Result the same attempt number.
C30_NumberingsAgree ==
    \A r \in results, c \in Clients, d \in Clients :
        LET Shows(b) == \/ resp[b].kind \in {"history_page", "scores"}
                        \/ resp[b].kind = "result" /\ resp[b].result_id = r.id
            NumberOn(b) == IF resp[b].kind = "result" THEN resp[b].attempt_number
                           ELSE IF r.id \in DOMAIN resp[b].attempt_numbers
                           THEN resp[b].attempt_numbers[r.id]
                           ELSE None
        IN  (Shows(c) /\ Shows(d)) => NumberOn(c) = NumberOn(d)

====
